---- MODULE Spec2Model ----
(***************************************************************************)
(* A model of the reconstruction engine of ext3grep (src/src/ext3grep.cc): *)
(* the indirect-block walker, the journal index, the two directory stages  *)
(* with their text caches, the directory tree construction and the         *)
(* restorer.  Every subsystem has its own specification; a specification   *)
(* leaves the variables of the other subsystems at their idle values.      *)
(***************************************************************************)
EXTENDS Integers, Sequences, FiniteSets, TLC

(***************************************************************************)
(* Bounds of the model.                                                    *)
(***************************************************************************)
\* Number of 32-bit pointers in one block (block_size_ / sizeof(__le32)).
PtrsPerBlock == 2
\* block_count_ of the modelled file system; valid block numbers are 0 .. BlockCount - 1.
BlockCount == 6
\* Largest number of descriptors the journal scan finds.
MaxDescriptors == 3
\* Largest journal sequence number (h_sequence) in the journal.
MaxSequence == 2
\* inode_count_ of the file system of the directory stages.
InodeCount == 2

(***************************************************************************)
(* Program constants.                                                      *)
(***************************************************************************)
EXT3_NDIR_BLOCKS == 12
direct_bit == 1
indirect_bit == 2
\* sizeof(__le32)
PtrSize == 4
\* block_size_ in bytes.
block_size_ == PtrSize * PtrsPerBlock
\* INT_MAX of the 32-bit int that Data::remaining_size is.
INT_MAX == 2147483647

Min(a, b) == IF a < b THEN a ELSE b
Max(a, b) == IF a > b THEN a ELSE b

\* A pointer value that is not a block number: the first value >= block_count_.
BadPtr == BlockCount

VARIABLES
  \* ---- indirect-block walker --------------------------------------------
  wpc,        \* "idle", "ready" (inputs chosen), "returned", "aborted"
  inode,      \* the Inode handed to iterate_over_all_blocks_of
  disk,       \* block number -> the PtrsPerBlock pointers stored in that block
  indirect_mask,
  emitted,    \* block numbers passed to action(), in call order
  reused_or_corrupted,  \* return value of iterate_over_all_blocks_of
  \* ---- journal index -----------------------------------------------------
  jpc,        \* "idle", "scanned", "indexed", "aborted"
  all_descriptors,      \* the descriptors found by iterate_over_journal, later sorted
  journal_inode_copy,   \* journal block -> the copy of the examined inode slot held there
  sequence_transaction_map,
  block_to_descriptors_map,
  block_in_journal_to_descriptors_map,
  journal_bitmaps, \* min_journal_block, max_journal_block and the two bitmaps
  real_block, \* the last call of journal_block_to_real_block: [blocknr, ret]
  \* ---- get_undeleted_inode ------------------------------------------------
  real_inode, \* get_inode(inodenr), the on-disk copy
  commandline_after,
  undeleted,  \* what get_undeleted_inode returned, and the copies it was given
  \* ---- restorer ----------------------------------------------------------
  rpc,        \* "idle", "start", "writing", "closed", "skipped", "failed",
              \* "open_failed", "aborted" (an assert), "exited" (exit(EXIT_FAILURE))
  remaining_size, \* Data::remaining_size (a 32-bit int)
  todo,       \* blocks the walker still has to hand to restore_file_action
  written,    \* number of bytes written to the output stream
  lens,       \* the len of every restore_file_action call, in order
  out_good,   \* out.good()
  dest        \* the file at outputdir + outfile before the call and now: [was, now],
              \* how the earlier calls of the run ended, and the calls still to come

walkVars == <<wpc, inode, disk, indirect_mask, emitted, reused_or_corrupted>>
journalVars == <<jpc, all_descriptors, journal_inode_copy, sequence_transaction_map,
                 block_to_descriptors_map, block_in_journal_to_descriptors_map,
                 journal_bitmaps, real_block>>
undelVars == <<real_inode, commandline_after, undeleted>>
restoreVars == <<rpc, remaining_size, todo, written, lens, out_good, dest>>

VARIABLES
  \* ---- stage 2: init_dir_inode_to_block_cache -----------------------------
  s2pc,       \* "idle", "scanned", "live", "resolved", "reported", "aborted"
  stage1,     \* what the stage-1 scan found: [cache, extended], kept for reference
  inode_table,              \* inode number -> [allocated, directory, first_block]
  dir_inode_to_block_cache, \* inode number -> its candidate directory blocks, in order
  extended_blocks,          \* the extended directory blocks found by the scan
  dir_content,              \* directory block -> its list of entries (an identifier)
  counters,                 \* inc, sinc, ainc, asinc, cinc, jsinc, hsinc, esinc
  warnings,                 \* inodes reported as allocated without directory block
  resolved_by,              \* inode number -> the rule that left it with one candidate
  report                    \* what the end of stage 2 prints

stage2Vars == <<s2pc, stage1, inode_table, dir_inode_to_block_cache, extended_blocks, dir_content,
                counters, warnings, resolved_by, report>>

VARIABLES
  \* ---- the cache files of the two stages ----------------------------------
  c1pc,         \* "idle", "scanned", "written", "loaded", "aborted", "hung"
  cache_stage1  \* the characters of <device>.ext3grep.stage1

cacheVars == <<c1pc, cache_stage1>>

VARIABLES
  \* ---- init_directories: the directory tree and the stage-2 cache file ----
  tpc,          \* "idle", "ready", "tree", "linked", "written", "loaded", "hung", or
                \* the phase that an assert ended: "tree_aborted", "link_aborted", ...
  depth,        \* static int depth (line 2422)
  device_blocks,            \* directory block -> its entries, in the order of the block
  locate_answer,            \* the path parent_directory gives for an extended block
  block_to_dir_inode_map,   \* block -> the directory inode the journal gives for it
  all_directories,          \* path -> Directory: [inode_number, blocks]
  inode_to_directory,       \* inode number -> the path of its entry of all_directories
  tree_log,                 \* what the run printed and entered, in order
  cache_stage2,             \* the characters of <device>.ext3grep.stage2
  computed                  \* the result of the run that wrote the stage-2 cache file

treeVars == <<tpc, depth, device_blocks, locate_answer, block_to_dir_inode_map, all_directories,
              inode_to_directory, tree_log, cache_stage2, computed>>

VARIABLES
  \* ---- main: the order of the builds of one run --------------------------
  mpc,        \* the next step of main: "idle", "init_journal", "inode", "block", ...
  options,    \* the command line and the cache files that exist
  run         \* the guards of the builds, and what the run built and did, in order

mainVars == <<mpc, options, run>>

VARIABLES
  \* ---- is_directory -------------------------------------------------------
  dir_block,  \* the block buffer: its bytes, and the byte read behind its end
  isdir       \* start_block -> what is_directory returned for it, or "none"

dirVars == <<dir_block, isdir>>

VARIABLES
  \* ---- iterate_over_journal ----------------------------------------------
  journal_image,            \* journal index -> the block stored there
  pointer_size,             \* sizeof(journal_block_tag_t*) of the build
  scan_jbn,                 \* jbn: the journal index of the scan
  scan_visits,              \* the journal indices read as a header, in order
  scan_events,              \* what the callbacks were handed, in order
  wrapped_journal_sequence, \* uint32_t wrapped_journal_sequence
  scan_pc                   \* "idle", "scanning", "done"

scanVars == <<journal_image, pointer_size, scan_jbn, scan_visits, scan_events,
              wrapped_journal_sequence, scan_pc>>

VARIABLES
  \* ---- the static block buffers of the walker -----------------------------
  dir_tree,             \* directory inode -> its pointers and sub-directories
  call_stack,           \* the activations of iterate_over_all_blocks_of
  using_static_buffer,  \* level -> static bool using_static_buffer of its walker
  nest_pc               \* "idle", "running", "done", "assert_failed"

reentryVars == <<dir_tree, call_stack, using_static_buffer, nest_pc>>

VARIABLES
  \* ---- iterate_over_directory on the bytes of dir_block -------------------
  iod_pc,       \* "idle", "live" (the chain of rec_len), "deleted" (the scan), "done"
  iod_offset,   \* int offset
  iod_map,      \* the slots offset / EXT3_DIR_PAD of map[] that are set
  iod_scanned,  \* the offsets that the scan for deleted entries looked at, in order
  iod_calls     \* the number of calls of filter_dir_entry by the first loop, modulo 2

iterVars == <<iod_pc, iod_offset, iod_map, iod_scanned, iod_calls>>

VARIABLES
  \* ---- blocknr_vector_type ------------------------------------------------
  blockvec,   \* the union: the word blocknr, or the array behind blocknr_vector
  inserted,   \* block number -> how often it was inserted and not removed since
  vpc         \* "idle", "running", or "assert_failed"

vectorVars == <<blockvec, inserted, vpc>>

\* The variables of the directory stages.
stageVars == <<stage2Vars, cacheVars, treeVars>>

(***************************************************************************)
(* Indirect blocks (ext3grep.cc 584-724).                                  *)
(***************************************************************************)
\* A mutant of is_block_number that accepts block_count_ itself.
is_block_number_le(block_number) == block_number <= BlockCount

is_block_number(block_number) == block_number < BlockCount

\* mask & bit, for the one-bit constants direct_bit and indirect_bit.
HasBit(mask, bit) == (mask \div bit) % 2 = 1

\* get_block(): the read asserts device.good(), which fails beyond the device.
CanRead(block) == block < BlockCount

\* Slot i (0-based) of the pointer array stored in a block.
Slot(d, block, i) == d[block][i + 1]

\* The while loop of iterate_over_all_blocks_of_indirect_block, from slot i on.
\* Returns the calls made to action and the final value of i.
\* A mutant of the loop that takes a zero slot for the end of the block.
RECURSIVE IndirectLoop_stop_at_zero(_, _, _, _)
IndirectLoop_stop_at_zero(d, block, i, out) ==
  IF i >= PtrsPerBlock THEN [out |-> out, i |-> i]
  ELSE LET p == Slot(d, block, i) IN
       IF p # 0
       THEN IF ~is_block_number(p) THEN [out |-> out, i |-> i]
            ELSE IndirectLoop_stop_at_zero(d, block, i + 1, Append(out, p))
       ELSE [out |-> out, i |-> PtrsPerBlock]

RECURSIVE IndirectLoop(_, _, _, _)
IndirectLoop(d, block, i, out) ==
  IF i >= PtrsPerBlock THEN [out |-> out, i |-> i]
  ELSE LET p == Slot(d, block, i) IN
       IF p # 0
       THEN IF ~is_block_number(p) THEN [out |-> out, i |-> i]
            ELSE IndirectLoop(d, block, i + 1, Append(out, p))
       ELSE IndirectLoop(d, block, i + 1, out)

\* A mutant that loses the "slot is no block number" result of the loop.
iterate_over_all_blocks_of_indirect_block_ret_false(d, block, out) ==
  LET r == IndirectLoop(d, block, 0, out)
  IN [out |-> r.out, ret |-> FALSE]

iterate_over_all_blocks_of_indirect_block(d, block, out) ==
  LET r == IndirectLoop(d, block, 0, out)
  IN [out |-> r.out, ret |-> (r.i < PtrsPerBlock)]

RECURSIVE DoubleLoop(_, _, _, _, _)
DoubleLoop(d, block, i, mask, out) ==
  IF i >= PtrsPerBlock THEN [out |-> out, i |-> i]
  ELSE LET p == Slot(d, block, i) IN
       IF p # 0
       THEN IF ~is_block_number(p) THEN [out |-> out, i |-> i]
            ELSE LET o1 == IF HasBit(mask, indirect_bit) THEN Append(out, p) ELSE out
                 IN IF HasBit(mask, direct_bit)
                    THEN LET r == iterate_over_all_blocks_of_indirect_block(d, p, o1)
                         IN IF r.ret THEN [out |-> r.out, i |-> i]
                            ELSE DoubleLoop(d, block, i + 1, mask, r.out)
                    ELSE DoubleLoop(d, block, i + 1, mask, o1)
       ELSE DoubleLoop(d, block, i + 1, mask, out)

iterate_over_all_blocks_of_double_indirect_block(d, block, mask, out) ==
  LET r == DoubleLoop(d, block, 0, mask, out)
  IN [out |-> r.out, ret |-> (r.i < PtrsPerBlock)]

RECURSIVE TrippleLoop(_, _, _, _, _)
TrippleLoop(d, block, i, mask, out) ==
  IF i >= PtrsPerBlock THEN [out |-> out, i |-> i]
  ELSE LET p == Slot(d, block, i) IN
       IF p # 0
       THEN IF ~is_block_number(p) THEN [out |-> out, i |-> i]
            ELSE LET o1 == IF HasBit(mask, indirect_bit) THEN Append(out, p) ELSE out
                     r == iterate_over_all_blocks_of_double_indirect_block(d, p, mask, o1)
                 IN IF r.ret THEN [out |-> r.out, i |-> i]
                    ELSE TrippleLoop(d, block, i + 1, mask, r.out)
       ELSE TrippleLoop(d, block, i + 1, mask, out)

iterate_over_all_blocks_of_tripple_indirect_block(d, block, mask, out) ==
  LET r == TrippleLoop(d, block, 0, mask, out)
  IN [out |-> r.out, ret |-> (r.i < PtrsPerBlock)]

\* The for loop over the EXT3_NDIR_BLOCKS direct slots.
RECURSIVE DirectLoop(_, _, _)
DirectLoop(ino, i, out) ==
  IF i >= EXT3_NDIR_BLOCKS THEN out
  ELSE DirectLoop(ino, i + 1, IF ino.block[i + 1] # 0 THEN Append(out, ino.block[i + 1]) ELSE out)

\* ret is "false", "true" (reused or corrupted) or "abort" (the assert in get_block).
WalkTind(d, ino, mask, out) ==
  IF ino.tind # 0
  THEN LET o1 == IF HasBit(mask, indirect_bit) THEN Append(out, ino.tind) ELSE out
       IN IF ~CanRead(ino.tind) THEN [out |-> o1, ret |-> "abort"]
          ELSE LET r == iterate_over_all_blocks_of_tripple_indirect_block(d, ino.tind, mask, o1)
               IN [out |-> r.out, ret |-> IF r.ret THEN "true" ELSE "false"]
  ELSE [out |-> out, ret |-> "false"]

WalkDind(d, ino, mask, out) ==
  IF ino.dind # 0
  THEN LET o1 == IF HasBit(mask, indirect_bit) THEN Append(out, ino.dind) ELSE out
       IN IF ~CanRead(ino.dind) THEN [out |-> o1, ret |-> "abort"]
          ELSE LET r == iterate_over_all_blocks_of_double_indirect_block(d, ino.dind, mask, o1)
               IN IF r.ret THEN [out |-> r.out, ret |-> "true"]
                  ELSE WalkTind(d, ino, mask, r.out)
  ELSE WalkTind(d, ino, mask, out)

WalkInd(d, ino, mask, out) ==
  IF ino.ind # 0
  THEN LET o1 == IF HasBit(mask, indirect_bit) THEN Append(out, ino.ind) ELSE out
       IN IF HasBit(mask, direct_bit)
          THEN IF ~CanRead(ino.ind) THEN [out |-> o1, ret |-> "abort"]
               ELSE LET r == iterate_over_all_blocks_of_indirect_block(d, ino.ind, o1)
                    IN IF r.ret THEN [out |-> r.out, ret |-> "true"]
                       ELSE WalkDind(d, ino, mask, r.out)
          ELSE WalkDind(d, ino, mask, o1)
  ELSE WalkDind(d, ino, mask, out)

iterate_over_all_blocks_of(d, ino, mask) ==
  IF ino.symlink /\ ino.blocks = 0
  THEN [out |-> <<>>, ret |-> "false"]
  ELSE WalkInd(d, ino, mask,
               IF HasBit(mask, direct_bit) THEN DirectLoop(ino, 0, <<>>) ELSE <<>>)

(***************************************************************************)
(* Inputs of the walker: an inode and the pointer blocks of a device.      *)
(* Block 1 is laid out as a triple-indirect block, block 2 as a            *)
(* double-indirect block, block 3 as an indirect block; blocks 4 and 5     *)
(* are data blocks.  Every other block holds zeroes.                       *)
(***************************************************************************)
ZeroRow == [i \in 1..PtrsPerBlock |-> 0]

\* Rows of a pointer block whose valid slots all name `child'.
RowShapes(child) ==
  { ZeroRow,
    [i \in 1..PtrsPerBlock |-> child],
    [i \in 1..PtrsPerBlock |-> IF i = 1 THEN 0 ELSE child],
    [i \in 1..PtrsPerBlock |-> IF i = PtrsPerBlock THEN BadPtr ELSE child],
    [i \in 1..PtrsPerBlock |-> IF i = 1 THEN BadPtr ELSE child],
    [i \in 1..PtrsPerBlock |-> IF i = 2 THEN BadPtr ELSE child] }

TopRowShapes(child) ==
  { ZeroRow,
    [i \in 1..PtrsPerBlock |-> child],
    [i \in 1..PtrsPerBlock |-> IF i = 1 THEN BadPtr ELSE child] }

DiskOf(r1, r2, r3) ==
  [b \in 0..(BlockCount - 1) |->
     IF b = 1 THEN r1 ELSE IF b = 2 THEN r2 ELSE IF b = 3 THEN r3 ELSE ZeroRow]

NoDirect == [i \in 1..EXT3_NDIR_BLOCKS |-> 0]

DirectShapes ==
  { NoDirect,
    [NoDirect EXCEPT ![1] = 5],
    [NoDirect EXCEPT ![1] = 5, ![EXT3_NDIR_BLOCKS] = 4],
    [NoDirect EXCEPT ![3] = BadPtr] }

\* i_size is kept as the 32-bit unsigned value hi * 2^31 + lo.
Size32(hi, lo) == [hi |-> hi, lo |-> lo]

MkInode(blk, ind, dind, tind, symlink, blocks, size, dtime) ==
  [block |-> blk, ind |-> ind, dind |-> dind, tind |-> tind,
   symlink |-> symlink, blocks |-> blocks, size |-> size, dtime |-> dtime]

NoInode == MkInode(NoDirect, 0, 0, 0, FALSE, 0, Size32(0, 0), 0)

WalkInodes ==
  { MkInode(blk, ind, dind, tind, sl, IF sl THEN 0 ELSE 8, Size32(0, 0), 0) :
      blk \in DirectShapes, ind \in {0, 3, BadPtr}, dind \in {0, 2, BadPtr},
      tind \in {0, 1, BadPtr}, sl \in BOOLEAN }

AtMostOneBadRoot(ino) ==
  Cardinality({r \in {"ind", "dind", "tind"} :
                 (r = "ind" /\ ino.ind = BadPtr) \/ (r = "dind" /\ ino.dind = BadPtr)
                 \/ (r = "tind" /\ ino.tind = BadPtr)}) <= 1

IdleWalk ==
  /\ wpc = "idle"
  /\ inode = NoInode
  /\ disk = DiskOf(ZeroRow, ZeroRow, ZeroRow)
  /\ indirect_mask = direct_bit
  /\ emitted = <<>>
  /\ reused_or_corrupted = "none"

\* A path of the output directory at which nothing exists.
NoFile == [kind |-> "absent", len |-> 0, origin |-> "none"]

IdleRestore ==
  /\ rpc = "idle"
  /\ remaining_size = 0
  /\ todo = <<>>
  /\ written = 0
  /\ lens = <<>>
  /\ out_good = TRUE
  /\ dest = [was |-> NoFile, now |-> NoFile, parent |-> "none", done |-> <<>>,
             remaining |-> 0]

EmptyMap == [x \in {} |-> 0]

NoResult == [kind |-> "none", sequence |-> 0, index |-> 0, inode |-> NoInode, examined |-> <<>>]

\* The statics of lines 3186-3191 before init_journal: zero, and NULL bitmaps.
NoBitmaps == [min_journal_block |-> 0, max_journal_block |-> 0,
              journal_block_bitmap |-> {}, is_indirect_block_in_journal_bitmap |-> {}]

\* No call of journal_block_to_real_block yet.
NoRealBlock == [blocknr |-> -1, ret |-> 0]

IdleJournal ==
  /\ jpc = "idle"
  /\ all_descriptors = <<>>
  /\ journal_inode_copy = EmptyMap
  /\ sequence_transaction_map = EmptyMap
  /\ block_to_descriptors_map = EmptyMap
  /\ block_in_journal_to_descriptors_map = EmptyMap
  /\ journal_bitmaps = NoBitmaps
  /\ real_block = NoRealBlock

IdleUndel ==
  /\ real_inode = NoInode
  /\ commandline_after = 0
  /\ undeleted = NoResult

NoCounters == [inc |-> 0, sinc |-> 0, ainc |-> 0, asinc |-> 0, cinc |-> 0,
               jsinc |-> 0, hsinc |-> 0, esinc |-> 0]

NoReport == [printed |-> FALSE, accounted |-> FALSE, listed |-> <<>>]

IdleStage2 ==
  /\ s2pc = "idle"
  /\ stage1 = [cache |-> EmptyMap, extended |-> <<>>]
  /\ inode_table = EmptyMap
  /\ dir_inode_to_block_cache = EmptyMap
  /\ extended_blocks = <<>>
  /\ dir_content = EmptyMap
  /\ counters = NoCounters
  /\ warnings = <<>>
  /\ resolved_by = EmptyMap
  /\ report = NoReport

IdleCache ==
  /\ c1pc = "idle"
  /\ cache_stage1 = <<>>

IdleTree ==
  /\ tpc = "idle"
  /\ depth = 0
  /\ device_blocks = EmptyMap
  /\ locate_answer = <<>>
  /\ block_to_dir_inode_map = EmptyMap
  /\ all_directories = EmptyMap
  /\ inode_to_directory = EmptyMap
  /\ tree_log = <<>>
  /\ cache_stage2 = <<>>
  /\ computed = [all_directories |-> EmptyMap, inode_to_directory |-> EmptyMap,
                 dir_inode_to_block_cache |-> EmptyMap]

\* The statics before main runs: NULL bitmaps and caches, initialized = false.
NoRun == [journal_block_bitmap |-> FALSE, dir_inode_to_block_cache |-> FALSE,
          init_directories |-> FALSE, init_files |-> FALSE, log |-> <<>>]

NoOptions == [inode |-> FALSE, block |-> FALSE, dump_names |-> FALSE,
              restore_all |-> FALSE, restore_file |-> FALSE, show_hardlinks |-> FALSE,
              stage1_cache |-> FALSE, stage2_cache |-> FALSE]

IdleMain ==
  /\ mpc = "idle"
  /\ options = NoOptions
  /\ run = NoRun

IdleDir ==
  /\ dir_block = [bytes |-> <<>>, behind |-> 0]
  /\ isdir = [start_block \in BOOLEAN |-> "none"]

IdleScan ==
  /\ journal_image = <<>>
  /\ pointer_size = 8
  /\ scan_jbn = 0
  /\ scan_visits = <<>>
  /\ scan_events = <<>>
  /\ wrapped_journal_sequence = 0
  /\ scan_pc = "idle"

IdleReentry ==
  /\ dir_tree = <<>>
  /\ call_stack = <<>>
  /\ using_static_buffer = <<FALSE, FALSE, FALSE>>
  /\ nest_pc = "idle"

IdleIterate ==
  /\ iod_pc = "idle"
  /\ iod_offset = 0
  /\ iod_map = {}
  /\ iod_scanned = <<>>
  /\ iod_calls = 0

IdleVector ==
  /\ blockvec = [word |-> [ext |-> 0, hi |-> 0, lo |-> 0], vec |-> <<>>]
  /\ inserted = <<>>
  /\ vpc = "idle"

IdleStages == IdleStage2 /\ IdleCache /\ IdleTree

InitWalk ==
  /\ wpc = "ready"
  /\ inode \in {ino \in WalkInodes : AtMostOneBadRoot(ino)}
  /\ \E r1 \in TopRowShapes(2), r2 \in RowShapes(3), r3 \in RowShapes(4) :
       disk = DiskOf(r1, r2, r3)
  /\ indirect_mask \in {direct_bit, indirect_bit, direct_bit + indirect_bit}
  /\ emitted = <<>>
  /\ reused_or_corrupted = "none"
  /\ IdleJournal /\ IdleUndel /\ IdleRestore /\ IdleStages /\ IdleMain /\ IdleDir /\ IdleScan /\ IdleReentry /\ IdleIterate /\ IdleVector

\* One call of iterate_over_all_blocks_of with an action that records its argument.
Iterate ==
  /\ wpc = "ready"
  /\ LET r == iterate_over_all_blocks_of(disk, inode, indirect_mask)
     IN /\ emitted' = r.out
        /\ reused_or_corrupted' = r.ret
        /\ wpc' = IF r.ret = "abort" THEN "aborted" ELSE "returned"
  /\ UNCHANGED <<inode, disk, indirect_mask>>
  /\ UNCHANGED <<journalVars, undelVars, restoreVars, mainVars, dirVars, stageVars, scanVars, reentryVars, iterVars, vectorVars>>

NextWalk == Iterate

vars == <<walkVars, journalVars, undelVars, restoreVars, stageVars, mainVars, dirVars, scanVars, reentryVars, iterVars, vectorVars>>

SpecWalk == InitWalk /\ [][NextWalk]_vars

(***************************************************************************)
(* The slots the walker is meant to visit, in depth-first order and        *)
(* without stopping: "bad" marks a non-zero slot that is no block number,  *)
(* "abort" a root pointer whose block cannot be read.                      *)
(***************************************************************************)
Emit(p) == [kind |-> "emit", block |-> p]
BadSlot(p) == [kind |-> "bad", block |-> p]
AbortAt(p) == [kind |-> "abort", block |-> p]

RECURSIVE Concat(_, _)
Concat(f, n) == IF n = 0 THEN <<>> ELSE Concat(f, n - 1) \o f[n]

LeafEvents(d, block) ==
  Concat([i \in 1..PtrsPerBlock |->
            LET p == d[block][i] IN
            IF p = 0 THEN <<>> ELSE IF p >= BlockCount THEN <<BadSlot(p)>> ELSE <<Emit(p)>>],
         PtrsPerBlock)

DoubleEvents(d, block, mask) ==
  Concat([i \in 1..PtrsPerBlock |->
            LET p == d[block][i] IN
            IF p = 0 THEN <<>> ELSE IF p >= BlockCount THEN <<BadSlot(p)>>
            ELSE (IF HasBit(mask, indirect_bit) THEN <<Emit(p)>> ELSE <<>>)
                 \o (IF HasBit(mask, direct_bit) THEN LeafEvents(d, p) ELSE <<>>)],
         PtrsPerBlock)

TrippleEvents(d, block, mask) ==
  Concat([i \in 1..PtrsPerBlock |->
            LET p == d[block][i] IN
            IF p = 0 THEN <<>> ELSE IF p >= BlockCount THEN <<BadSlot(p)>>
            ELSE (IF HasBit(mask, indirect_bit) THEN <<Emit(p)>> ELSE <<>>)
                 \o DoubleEvents(d, p, mask)],
         PtrsPerBlock)

RootEvents(ptr, descend, sub(_), mask) ==
  IF ptr = 0 THEN <<>>
  ELSE (IF HasBit(mask, indirect_bit) THEN <<Emit(ptr)>> ELSE <<>>)
       \o (IF ~descend THEN <<>> ELSE IF ptr >= BlockCount THEN <<AbortAt(ptr)>> ELSE sub(ptr))

AllEvents(d, ino, mask) ==
  IF ino.symlink /\ ino.blocks = 0 THEN <<>>
  ELSE LET Leaf(b) == LeafEvents(d, b)
           Dbl(b) == DoubleEvents(d, b, mask)
           Trp(b) == TrippleEvents(d, b, mask)
       IN (IF HasBit(mask, direct_bit)
           THEN Concat([i \in 1..EXT3_NDIR_BLOCKS |->
                          IF ino.block[i] = 0 THEN <<>> ELSE <<Emit(ino.block[i])>>],
                       EXT3_NDIR_BLOCKS)
           ELSE <<>>)
          \o RootEvents(ino.ind, HasBit(mask, direct_bit), Leaf, mask)
          \o RootEvents(ino.dind, TRUE, Dbl, mask)
          \o RootEvents(ino.tind, TRUE, Trp, mask)

Stops(ev) == {k \in 1..Len(ev) : ev[k].kind \in {"bad", "abort"}}
FirstStop(ev) == CHOOSE k \in Stops(ev) : \A j \in Stops(ev) : k <= j
Blocks(ev) == [k \in 1..Len(ev) |-> ev[k].block]

\* C1: every block number passed to the action is non-zero and below block_count_,
\* for the direct slots, the three root pointers and every slot of a pointer block.
C1_EmittedAreBlockNumbers ==
  \A k \in 1..Len(emitted) : emitted[k] # 0 /\ emitted[k] < BlockCount

\* C2: when the walk reaches a non-zero slot of a pointer block that is no block
\* number, it has emitted exactly the valid slots before it, nothing from that slot,
\* from later slots or from later subtrees, and it returns true instead of aborting.
C2_StopsAtBadSlot ==
  wpc # "ready" =>
    LET ev == AllEvents(disk, inode, indirect_mask) IN
    (Stops(ev) # {} /\ ev[FirstStop(ev)].kind = "bad") =>
       /\ wpc = "returned"
       /\ reused_or_corrupted = "true"
       /\ emitted = Blocks(SubSeq(ev, 1, FirstStop(ev) - 1))

\* A walk that emitted a block, stopped at a bad slot and left valid slots unvisited.
C2_Witness ==
  /\ wpc = "returned"
  /\ reused_or_corrupted = "true"
  /\ Len(emitted) >= 3
  /\ HasBit(indirect_mask, direct_bit)
  /\ inode.ind # 0 /\ inode.dind # 0 /\ inode.tind # 0
  /\ LET ev == AllEvents(disk, inode, indirect_mask) IN
       /\ Stops(ev) # {} /\ ev[FirstStop(ev)].kind = "bad"
       /\ \E k \in (FirstStop(ev) + 1)..Len(ev) : ev[k].kind = "emit"

\* A pointer block without the slots that follow its first zero slot.
CutAtZero(row) ==
  [i \in 1..PtrsPerBlock |-> IF \E j \in 1..(i - 1) : row[j] = 0 THEN 0 ELSE row[i]]

\* C16: a zero slot ends the enumeration of its pointer block: a walk that meets no
\* bad slot emits what it would emit if every slot after the first zero slot of each
\* pointer block were zero as well.
C16_ZeroEndsBlock ==
  (wpc = "returned" /\ reused_or_corrupted = "false") =>
     emitted = iterate_over_all_blocks_of([b \in DOMAIN disk |-> CutAtZero(disk[b])],
                                          inode, indirect_mask).out

\* C16 as amended: a zero slot is skipped and the enumeration goes on with the next
\* slot of the same block; a walk that meets no bad slot emits every non-zero slot
\* of every pointer block it descends into, in depth-first order.
C16_ZeroSlotSkipped ==
  wpc = "returned" =>
    LET ev == AllEvents(disk, inode, indirect_mask) IN
    Stops(ev) = {} => (reused_or_corrupted = "false" /\ emitted = Blocks(ev))

\* The indirect block holds a zero slot followed by block 4, which the walk emits.
C16_Witness ==
  /\ wpc = "returned"
  /\ reused_or_corrupted = "false"
  /\ indirect_mask = direct_bit
  /\ inode.ind = 3 /\ inode.dind = 0 /\ inode.tind = 0
  /\ inode.block = NoDirect
  /\ disk[3][1] = 0 /\ disk[3][PtrsPerBlock] = 4
  /\ emitted # <<>> /\ emitted[Len(emitted)] = 4

(***************************************************************************)
(* Journal (ext3grep.cc 2897-3572).                                        *)
(***************************************************************************)
\* inode_to_block(super_block, inode): the inode-table block of the examined inode.
InodeTableBlock == 1
\* Another file system block that tags and revokes may name, located after the journal.
OtherBlock == 9
\* journal_block_to_real_block(0): the scan visits the blocks after this one.
FirstJournalBlock == 3

Tag(block, sequence, blocknr) ==
  [type |-> "dt_tag", block |-> block, sequence |-> sequence, blocknr |-> blocknr, blocks |-> <<>>]
Revoke(block, sequence, blocks) ==
  [type |-> "dt_revoke", block |-> block, sequence |-> sequence, blocknr |-> 0, blocks |-> blocks]
Commit(block, sequence) ==
  [type |-> "dt_commit", block |-> block, sequence |-> sequence, blocknr |-> 0, blocks |-> <<>>]

\* The descriptors one journal block can give rise to.
DescriptorsAt(block) ==
  {Tag(block, q, b) : q \in 1..MaxSequence, b \in {InodeTableBlock, OtherBlock}}
  \cup {Revoke(block, q, bs) : q \in 1..MaxSequence,
                              bs \in {<<InodeTableBlock>>, <<OtherBlock, InodeTableBlock>>}}
  \cup {Commit(block, q) : q \in 1..MaxSequence}

\* What iterate_over_journal can leave in all_descriptors: one descriptor per
\* journal block, in journal order.
ScanResults ==
  UNION {{ds \in [1..n -> UNION {DescriptorsAt(FirstJournalBlock + k) : k \in 1..n}] :
            \A k \in 1..n : ds[k].block = FirstJournalBlock + k} : n \in 0..MaxDescriptors}

Reverse(q) == [k \in 1..Len(q) |-> q[Len(q) + 1 - k]]

\* A mutant of the sort that leaves the descriptors in journal order.
SortDescriptors_unsorted(ds) == {ds}

\* std::sort with AllDescriptorsPred: any arrangement in ascending sequence order
\* (the sort is not stable, descriptors of equal sequence may end up in any order).
SortDescriptors(ds) ==
  {[k \in 1..Len(ds) |-> ds[pi[k]]] : pi \in
     {f \in Permutations(1..Len(ds)) :
        \A i, j \in 1..Len(ds) : i < j => ds[f[i]].sequence <= ds[f[j]].sequence}}

add_block_descriptor(b2d, block, descriptor) ==
  IF block \notin DOMAIN b2d
  THEN (block :> <<descriptor>>) @@ b2d
  ELSE [b2d EXCEPT ![block] = Append(@, descriptor)]

RECURSIVE RevokeBlocks(_, _, _)
RevokeBlocks(b2d, descriptor, k) ==
  IF k > Len(descriptor.blocks) THEN b2d
  ELSE RevokeBlocks(add_block_descriptor(b2d, descriptor.blocks[k], descriptor), descriptor, k + 1)

\* DescriptorTag::add_block_descriptors and DescriptorRevoke::add_block_descriptors;
\* ok is the assert of add_block_in_journal_descriptor.
add_block_descriptors(st, descriptor) ==
  [st EXCEPT
     !.b2d = IF descriptor.type = "dt_tag"
             THEN add_block_descriptor(@, descriptor.blocknr, descriptor)
             ELSE RevokeBlocks(@, descriptor, 1),
     !.bij = (descriptor.block :> descriptor) @@ @,
     !.ok = descriptor.block \notin DOMAIN st.bij]

\* One iteration of the first for loop of init_journal.
AssembleOne(st, descriptor) ==
  LET sequence == descriptor.sequence
      created == sequence \notin DOMAIN st.stm
  IN IF descriptor.type \in {"dt_tag", "dt_revoke"}
     THEN LET t0 == IF created
                    THEN [block |-> descriptor.block, sequence |-> sequence,
                          committed |-> FALSE, descriptors |-> <<>>]
                    ELSE st.stm[sequence]
              t1 == [t0 EXCEPT !.descriptors = Append(@, descriptor)]
          IN add_block_descriptors(
               [st EXCEPT !.stm = (sequence :> t1) @@ [q \in DOMAIN @ \ {sequence} |-> @[q]]],
               descriptor)
     ELSE IF created THEN st
          ELSE IF st.stm[sequence].committed THEN [st EXCEPT !.ok = FALSE]
               ELSE [st EXCEPT !.stm[sequence].committed = TRUE]

RECURSIVE AssembleLoop(_, _, _)
AssembleLoop(ds, k, st) ==
  IF k > Len(ds) \/ ~st.ok THEN st
  ELSE AssembleLoop(ds, k + 1, AssembleOne(st, ds[k]))

find_largest_journal_sequence_number_first(b2d, block) ==
  IF block \notin DOMAIN b2d THEN 0 ELSE b2d[block][1].sequence

find_largest_journal_sequence_number(b2d, block) ==
  IF block \notin DOMAIN b2d THEN 0 ELSE b2d[block][Len(b2d[block])].sequence

IsTag(descriptor) == descriptor.type = "dt_tag"

\* A mutant that walks the descriptors of the block from the oldest to the youngest.
get_inodes_from_journal_forward(b2d, copies) ==
  IF InodeTableBlock \notin DOMAIN b2d THEN <<>>
  ELSE LET tags == SelectSeq(b2d[InodeTableBlock], IsTag)
       IN [k \in 1..Len(tags) |->
             [sequence |-> tags[k].sequence, inode |-> copies[tags[k].block]]]

get_inodes_from_journal(b2d, copies) ==
  IF InodeTableBlock \notin DOMAIN b2d THEN <<>>
  ELSE LET tags == SelectSeq(Reverse(b2d[InodeTableBlock]), IsTag)
       IN [k \in 1..Len(tags) |->
             [sequence |-> tags[k].sequence, inode |-> copies[tags[k].block]]]

\* A mutant of the loop that never answers ui_inode_too_old.
RECURSIVE UndeletedLoop_no_cutoff(_, _, _)
UndeletedLoop_no_cutoff(inodes, k, after) ==
  IF k > Len(inodes)
  THEN [kind |-> "ui_no_inode", sequence |-> 0, index |-> 0, inode |-> NoInode, examined |-> inodes]
  ELSE IF inodes[k].inode.dtime = 0
       THEN [kind |-> "ui_journal_inode", sequence |-> inodes[k].sequence, index |-> k,
             inode |-> inodes[k].inode, examined |-> inodes]
       ELSE UndeletedLoop_no_cutoff(inodes, k + 1, after)

RECURSIVE UndeletedLoop(_, _, _)
UndeletedLoop(inodes, k, after) ==
  IF k > Len(inodes)
  THEN [kind |-> "ui_no_inode", sequence |-> 0, index |-> 0, inode |-> NoInode, examined |-> inodes]
  ELSE IF inodes[k].inode.dtime = 0
       THEN [kind |-> "ui_journal_inode", sequence |-> inodes[k].sequence, index |-> k,
             inode |-> inodes[k].inode, examined |-> inodes]
       ELSE IF after # 0 /\ inodes[k].inode.dtime < after
            THEN [kind |-> "ui_inode_too_old", sequence |-> 0, index |-> k,
                  inode |-> NoInode, examined |-> inodes]
            ELSE UndeletedLoop(inodes, k + 1, after)

get_undeleted_inode(real, b2d, copies, after) ==
  IF real.dtime = 0
  THEN [kind |-> "ui_real_inode", sequence |-> 0, index |-> 0, inode |-> real, examined |-> <<>>]
  ELSE UndeletedLoop(get_inodes_from_journal(b2d, copies), 1, after)

\* The dtime values of inode copies: not deleted, deleted at 5, deleted at 20.
Dtimes == {0, 5, 20}
\* The --after values: none, or a cutoff between the two deletion times.
Afters == {0, 10}

DeletedAt(t) == MkInode(NoDirect, 0, 0, 0, FALSE, 0, Size32(0, 0), t)

InitJournal ==
  /\ jpc = "scanned"
  /\ all_descriptors \in ScanResults
  /\ journal_inode_copy \in
       [{all_descriptors[k].block : k \in {j \in 1..Len(all_descriptors) :
                                            all_descriptors[j].type = "dt_tag"}}
          -> {DeletedAt(t) : t \in Dtimes}]
  /\ \A b \in DOMAIN journal_inode_copy :
       (\E k \in 1..Len(all_descriptors) :
          all_descriptors[k].block = b /\ all_descriptors[k].blocknr # InodeTableBlock)
       => journal_inode_copy[b] = DeletedAt(0)
  /\ sequence_transaction_map = EmptyMap
  /\ block_to_descriptors_map = EmptyMap
  /\ block_in_journal_to_descriptors_map = EmptyMap
  /\ journal_bitmaps = NoBitmaps
  /\ real_block = NoRealBlock
  /\ IdleWalk /\ IdleUndel /\ IdleRestore /\ IdleStages /\ IdleMain /\ IdleDir /\ IdleScan /\ IdleReentry /\ IdleIterate /\ IdleVector

\* init_journal, from the sort of all_descriptors to the end of the assembly loop.
init_journal ==
  /\ jpc = "scanned"
  /\ \E sorted \in SortDescriptors(all_descriptors) :
       LET st == AssembleLoop(sorted, 1, [stm |-> EmptyMap, b2d |-> EmptyMap,
                                          bij |-> EmptyMap, ok |-> TRUE])
       IN /\ all_descriptors' = sorted
          /\ sequence_transaction_map' = st.stm
          /\ block_to_descriptors_map' = st.b2d
          /\ block_in_journal_to_descriptors_map' = st.bij
          /\ UNCHANGED <<journal_bitmaps, real_block>>
          /\ jpc' = IF st.ok THEN "indexed" ELSE "aborted"
  /\ UNCHANGED journal_inode_copy
  /\ UNCHANGED <<walkVars, undelVars, restoreVars, mainVars, dirVars, stageVars, scanVars, reentryVars, iterVars, vectorVars>>

\* A call of get_undeleted_inode for the examined inode.
GetUndeletedInode ==
  /\ jpc = "indexed"
  /\ undeleted.kind = "none"
  /\ \E t \in {0, 7}, after \in Afters :
       /\ real_inode' = DeletedAt(t)
       /\ commandline_after' = after
       /\ undeleted' = get_undeleted_inode(DeletedAt(t), block_to_descriptors_map,
                                           journal_inode_copy, after)
  /\ UNCHANGED <<walkVars, journalVars, restoreVars, mainVars, dirVars, stageVars, scanVars, reentryVars, iterVars, vectorVars>>

NextJournal == init_journal \/ GetUndeletedInode

SpecJournal == InitJournal /\ [][NextJournal]_vars

\* The tag and revoke descriptors of the scan that name a file system block.
Naming(block) ==
  {k \in 1..Len(all_descriptors) :
     \/ all_descriptors[k].type = "dt_tag" /\ all_descriptors[k].blocknr = block
     \/ all_descriptors[k].type = "dt_revoke"
        /\ \E j \in 1..Len(all_descriptors[k].blocks) : all_descriptors[k].blocks[j] = block}

MaxOf(S) == CHOOSE m \in S : \A x \in S : x <= m

\* C4: once the index is built, find_largest_journal_sequence_number(B) is the largest
\* sequence of the tags and revokes that name B, and 0 when none does; every per-block
\* descriptor list is in non-decreasing sequence order.
C4_LargestSequence ==
  jpc = "indexed" =>
    \A B \in {InodeTableBlock, OtherBlock, FirstJournalBlock} :
      /\ find_largest_journal_sequence_number(block_to_descriptors_map, B)
           = IF Naming(B) = {} THEN 0
             ELSE MaxOf({all_descriptors[k].sequence : k \in Naming(B)})
      /\ B \in DOMAIN block_to_descriptors_map =>
           \A i, j \in 1..Len(block_to_descriptors_map[B]) :
             i < j => block_to_descriptors_map[B][i].sequence
                        <= block_to_descriptors_map[B][j].sequence

\* A block written at two different sequences, the older one later in the journal.
C4_Witness ==
  /\ jpc = "indexed"
  /\ InodeTableBlock \in DOMAIN block_to_descriptors_map
  /\ LET ds == block_to_descriptors_map[InodeTableBlock] IN
       /\ Len(ds) >= 2
       /\ ds[1].sequence < ds[Len(ds)].sequence
       /\ ds[1].block > ds[Len(ds)].block
  /\ OtherBlock \notin DOMAIN block_to_descriptors_map

\* The tags of the scan that wrote the inode-table block of the examined inode.
TableTags ==
  {k \in 1..Len(all_descriptors) :
     all_descriptors[k].type = "dt_tag" /\ all_descriptors[k].blocknr = InodeTableBlock}

\* C5: for an inode whose on-disk copy is deleted, the copies examined are the journal
\* copies of its slot, one per tag of its table block, in descending sequence order; a
\* copy returned from the journal is the first examined copy with dtime 0, so no tag of
\* a higher sequence holds a copy with dtime 0; without a cutoff time a copy with
\* dtime 0 is always returned when one exists.
C5_NewestLiveCopy ==
  (undeleted.kind # "none" /\ real_inode.dtime # 0) =>
    LET ex == undeleted.examined IN
      /\ Len(ex) = Cardinality(TableTags)
      /\ \A q \in 1..MaxSequence, t \in Dtimes :
           Cardinality({i \in 1..Len(ex) : ex[i].sequence = q /\ ex[i].inode.dtime = t})
             = Cardinality({k \in TableTags :
                              /\ all_descriptors[k].sequence = q
                              /\ journal_inode_copy[all_descriptors[k].block].dtime = t})
      /\ \A i, j \in 1..Len(ex) : i < j => ex[i].sequence >= ex[j].sequence
      /\ undeleted.kind = "ui_journal_inode" =>
           /\ undeleted.index \in 1..Len(ex)
           /\ undeleted.inode = ex[undeleted.index].inode
           /\ undeleted.sequence = ex[undeleted.index].sequence
           /\ undeleted.inode.dtime = 0
           /\ \A i \in 1..(undeleted.index - 1) : ex[i].inode.dtime # 0
           /\ \A k \in TableTags :
                journal_inode_copy[all_descriptors[k].block].dtime = 0
                  => all_descriptors[k].sequence <= undeleted.sequence
      /\ (commandline_after = 0 /\ \E i \in 1..Len(ex) : ex[i].inode.dtime = 0)
           => undeleted.kind = "ui_journal_inode"

\* A deleted copy of the highest sequence is passed over, a live copy of a lower
\* sequence is returned, and the journal holds the older transaction after the younger.
C5_Witness ==
  /\ undeleted.kind = "ui_journal_inode"
  /\ real_inode.dtime # 0
  /\ undeleted.index = 2
  /\ Len(undeleted.examined) = 3
  /\ undeleted.examined[1].sequence > undeleted.sequence
  /\ undeleted.examined[3].inode.dtime = 0
  /\ \E k \in TableTags :
       /\ all_descriptors[k].sequence = undeleted.examined[1].sequence
       /\ \A j \in TableTags : all_descriptors[j].block >= all_descriptors[k].block

\* C22: after the assembly sequence_transaction_map holds a transaction for sequence
\* s exactly when the scan produced a tag or revoke of sequence s, and the transaction
\* is committed exactly when the scan produced a commit of sequence s, whatever order
\* the sort left the descriptors of equal sequence in.
C22_TransactionsAndCommits ==
  jpc = "indexed" =>
    \A s \in 1..MaxSequence :
      LET of(type) == \E k \in 1..Len(all_descriptors) :
                        all_descriptors[k].sequence = s /\ all_descriptors[k].type = type
      IN /\ s \in DOMAIN sequence_transaction_map <=> (of("dt_tag") \/ of("dt_revoke"))
         /\ s \in DOMAIN sequence_transaction_map =>
              (sequence_transaction_map[s].committed <=> of("dt_commit"))

\* The part about which transactions exist does hold, and a transaction that is
\* marked committed has a commit block.
C22_TransactionsOfTagsAndRevokes ==
  jpc = "indexed" =>
    \A s \in 1..MaxSequence :
      LET of(type) == \E k \in 1..Len(all_descriptors) :
                        all_descriptors[k].sequence = s /\ all_descriptors[k].type = type
      IN /\ s \in DOMAIN sequence_transaction_map <=> (of("dt_tag") \/ of("dt_revoke"))
         /\ s \in DOMAIN sequence_transaction_map =>
              (sequence_transaction_map[s].committed => of("dt_commit"))

(***************************************************************************)
(* The blocks of the journal inode (ext3grep.cc 3186-3246, 3332-3407).     *)
(***************************************************************************)
\* find_blocknr_range_action over the calls of one walk, from
\* smallest_block_nr = block_count and largest_block_nr = 0.
find_blocknr_range(blocks, k, r) ==
  LET seen == {blocks[j] : j \in k..Len(blocks)}
      above == {b \in seen : b > r.largest}
      below == {b \in seen : b < r.smallest}
  IN [largest |-> IF above = {} THEN r.largest
                  ELSE CHOOSE b \in above : \A c \in above : b >= c,
      smallest |-> IF below = {} THEN r.smallest
                   ELSE CHOOSE b \in below : \A c \in below : b <= c]

\* fill_journal_bitmap_action and indirect_journal_block_action over the calls of one
\* walk: a bitmap is kept as the set of the block numbers whose bit is set.
fill_bitmap(blocks) == {blocks[k] : k \in 1..Len(blocks)}

is_in_journal(jb, blocknr) ==
  blocknr >= jb.min_journal_block /\ blocknr < jb.max_journal_block

\* is_journal for an internal journal (s_journal_dev = 0), reading the bitmap that
\* init_journal filled; the stage-2 model above uses the journal of its own device.
is_journal_bitmap(jb, blocknr) ==
  IF ~is_in_journal(jb, blocknr) THEN FALSE
  ELSE blocknr \in jb.journal_block_bitmap

is_indirect_block_in_journal(jb, blocknr) ==
  IF blocknr >= jb.max_journal_block \/ blocknr < jb.min_journal_block THEN FALSE
  ELSE blocknr \in jb.is_indirect_block_in_journal_bitmap

\* Journal inodes: direct blocks 5 and 4, or twelve direct blocks, and the pointer
\* blocks of the walker's device.
JournalInodes ==
  { MkInode(blk, ind, dind, tind, FALSE, 8, Size32(0, 0), 0) :
      blk \in DirectShapes \cup {[i \in 1..EXT3_NDIR_BLOCKS |-> 5]},
      ind \in {0, 3}, dind \in {0, 2}, tind \in {0, 1} }

\* Rows of the indirect block of the journal inode: those of the walker, and two
\* rows whose slots name different blocks.
JournalRows ==
  RowShapes(4) \cup {[i \in 1..PtrsPerBlock |-> IF i = 1 THEN 4 ELSE 5],
                     [i \in 1..PtrsPerBlock |-> IF i = 1 THEN 5 ELSE 4]}

InitJournalInode ==
  /\ jpc = "start"
  /\ inode \in JournalInodes
  /\ \E r1 \in TopRowShapes(2), r2 \in RowShapes(3), r3 \in JournalRows :
       disk = DiskOf(r1, r2, r3)
  /\ wpc = "idle"
  /\ indirect_mask = direct_bit
  /\ emitted = <<>>
  /\ reused_or_corrupted = "none"
  /\ all_descriptors = <<>>
  /\ journal_inode_copy = EmptyMap
  /\ sequence_transaction_map = EmptyMap
  /\ block_to_descriptors_map = EmptyMap
  /\ block_in_journal_to_descriptors_map = EmptyMap
  /\ journal_bitmaps = NoBitmaps
  /\ real_block = NoRealBlock
  /\ IdleUndel /\ IdleRestore /\ IdleStages /\ IdleMain /\ IdleDir /\ IdleScan /\ IdleReentry /\ IdleIterate /\ IdleVector

\* What init_journal stores from its walks over the journal inode: all is the walk
\* over every block, indirect the walk over the indirect blocks.
StoreJournalBitmaps(all, indirect) ==
  LET ranged == find_blocknr_range(all.out, 1, [largest |-> 0, smallest |-> BlockCount])
  IN IF all.ret # "false" \/ ~(ranged.smallest < ranged.largest)
     THEN /\ jpc' = "aborted"
          /\ UNCHANGED journal_bitmaps
     ELSE /\ jpc' = "mapped"
          /\ journal_bitmaps' =
               [min_journal_block |-> ranged.smallest,
                max_journal_block |-> ranged.largest + 1,
                journal_block_bitmap |-> fill_bitmap(all.out),
                is_indirect_block_in_journal_bitmap |-> fill_bitmap(indirect.out)]

\* init_journal up to the descriptors (lines 3225-3246): the block range, then the
\* two bitmaps.  An assert that fails ends the run.
FillJournalBitmaps ==
  /\ jpc = "start"
  /\ StoreJournalBitmaps(iterate_over_all_blocks_of(disk, inode, indirect_bit + direct_bit),
                         iterate_over_all_blocks_of(disk, inode, indirect_bit))
  /\ UNCHANGED <<all_descriptors, journal_inode_copy, sequence_transaction_map,
                 block_to_descriptors_map, block_in_journal_to_descriptors_map, real_block>>
  /\ UNCHANGED <<walkVars, undelVars, restoreVars, mainVars, dirVars, stageVars, scanVars, reentryVars, iterVars, vectorVars>>

\* A mutant that indexes the indirect block below the double-indirect block with
\* the quotient instead of the remainder.
journal_block_to_real_block_quotient(d, ino, blocknr) ==
  LET vpb == PtrsPerBlock
      b1 == blocknr - EXT3_NDIR_BLOCKS
      b2 == b1 - vpb
      b3 == b2 - vpb * vpb
      read(block, i) == IF CanRead(block) THEN Slot(d, block, i) ELSE -1
      via(block, i) == IF block = -1 THEN -1 ELSE read(block, i)
  IN IF blocknr < EXT3_NDIR_BLOCKS THEN ino.block[blocknr + 1]
     ELSE IF b1 < vpb THEN read(ino.ind, b1)
     ELSE IF b2 < vpb * vpb THEN via(read(ino.dind, b2 \div vpb), b2 \div vpb)
     ELSE via(via(read(ino.tind, b3 \div (vpb * vpb)), (b3 \div vpb) % vpb), b3 % vpb)

\* journal_block_to_real_block with vpb = PtrsPerBlock; -1 stands for the assert of
\* get_block on a block that cannot be read.  A zero pointer makes it read block 0.
journal_block_to_real_block(d, ino, blocknr) ==
  LET vpb == PtrsPerBlock
      b1 == blocknr - EXT3_NDIR_BLOCKS
      b2 == b1 - vpb
      b3 == b2 - vpb * vpb
      read(block, i) == IF CanRead(block) THEN Slot(d, block, i) ELSE -1
      via(block, i) == IF block = -1 THEN -1 ELSE read(block, i)
  IN IF blocknr < EXT3_NDIR_BLOCKS THEN ino.block[blocknr + 1]
     ELSE IF b1 < vpb THEN read(ino.ind, b1)
     ELSE IF b2 < vpb * vpb THEN via(read(ino.dind, b2 \div vpb), b2 % vpb)
     ELSE via(via(read(ino.tind, b3 \div (vpb * vpb)), (b3 \div vpb) % vpb), b3 % vpb)

\* journal_maxlen_ of the journal superblock: what the pointers of an inode can hold.
JournalCapacity ==
  EXT3_NDIR_BLOCKS + PtrsPerBlock + PtrsPerBlock * PtrsPerBlock
  + PtrsPerBlock * PtrsPerBlock * PtrsPerBlock

\* A call of journal_block_to_real_block (main, line 984; iterate_over_journal).
JournalBlockToRealBlock ==
  /\ jpc = "mapped"
  /\ \E blocknr \in 0..(JournalCapacity - 1) :
       LET ret == journal_block_to_real_block(disk, inode, blocknr)
       IN /\ real_block' = [blocknr |-> blocknr, ret |-> ret]
          /\ jpc' = IF ret = -1 THEN "aborted" ELSE "mapped"
  /\ UNCHANGED <<all_descriptors, journal_inode_copy, sequence_transaction_map,
                 block_to_descriptors_map, block_in_journal_to_descriptors_map,
                 journal_bitmaps>>
  /\ UNCHANGED <<walkVars, undelVars, restoreVars, stageVars, mainVars, dirVars, scanVars, reentryVars, iterVars, vectorVars>>

NextJournalInode == FillJournalBitmaps \/ JournalBlockToRealBlock

SpecJournalInode == InitJournalInode /\ [][NextJournalInode]_vars

\* The blocks the journal inode owns: its data blocks and its indirect blocks.
OwnedByJournal ==
  LET all == iterate_over_all_blocks_of(disk, inode, indirect_bit + direct_bit).out
  IN {all[k] : k \in 1..Len(all)}

\* C12: once the journal bitmaps are built, is_journal(b) and is_in_journal(b) are
\* both true exactly for the blocks the journal inode owns, for every block number b.
C12_SameJournalSet ==
  jpc = "mapped" =>
    \A b \in 0..BlockCount :
      /\ is_journal_bitmap(journal_bitmaps, b) = (b \in OwnedByJournal)
      /\ is_in_journal(journal_bitmaps, b) = (b \in OwnedByJournal)

\* The data slots of the journal inode in the order of their journal-relative index:
\* the direct slots, the slots of the indirect block, of the indirect blocks below
\* the double-indirect block, and of those below the triple-indirect block.  A zero
\* pointer stands for a block of zero slots.
LeafSlots(d, p) == [i \in 1..PtrsPerBlock |-> IF p = 0 THEN 0 ELSE d[p][i]]
DoubleSlots(d, p) ==
  Concat([i \in 1..PtrsPerBlock |-> LeafSlots(d, LeafSlots(d, p)[i])], PtrsPerBlock)
TrippleSlots(d, p) ==
  Concat([i \in 1..PtrsPerBlock |-> DoubleSlots(d, LeafSlots(d, p)[i])], PtrsPerBlock)
DataSlots(d, ino) ==
  ino.block \o LeafSlots(d, ino.ind) \o DoubleSlots(d, ino.dind) \o TrippleSlots(d, ino.tind)

\* No zero pointer inside the used range: no zero data slot is followed by a
\* non-zero one.
NoZeroInside(d, ino) ==
  LET slots == DataSlots(d, ino)
  IN \A j, k \in 1..Len(slots) : (j < k /\ slots[j] = 0) => slots[k] = 0

\* C17: for a journal inode without zero pointer inside its used range,
\* journal_block_to_real_block(j) is the (j+1)-th block that the walker emits with
\* the data-only selector, for every j below the number of data blocks, and it is
\* no block marked in is_indirect_block_in_journal_bitmap.
C17_RealBlockIsWalkOrder ==
  (jpc = "mapped" /\ real_block.blocknr >= 0 /\ NoZeroInside(disk, inode)) =>
    LET data == iterate_over_all_blocks_of(disk, inode, direct_bit).out
    IN real_block.blocknr < Len(data) =>
         /\ real_block.ret = data[real_block.blocknr + 1]
         /\ ~is_indirect_block_in_journal(journal_bitmaps, real_block.ret)

\* A data block reached through the double-indirect block of a journal inode whose
\* indirect block names two different blocks.
C17_Witness ==
  /\ jpc = "mapped"
  /\ NoZeroInside(disk, inode)
  /\ real_block.blocknr = EXT3_NDIR_BLOCKS + PtrsPerBlock + 1
  /\ real_block.blocknr < Len(iterate_over_all_blocks_of(disk, inode, direct_bit).out)
  /\ disk[3][1] # disk[3][2]
  /\ real_block.ret = disk[3][2]

\* is_journal alone does describe the owned blocks.
C12_BitmapIsOwned ==
  jpc = "mapped" =>
    \A b \in 0..BlockCount : is_journal_bitmap(journal_bitmaps, b) = (b \in OwnedByJournal)

(***************************************************************************)
(* The restorer (ext3grep.cc 4720-4737, 4882-4898, 4955-5106), for         *)
(* regular files.                                                          *)
(***************************************************************************)
\* Data::Data(std::ostream&, uint32_t): the conversion of i_size to int remaining_size.
ToInt32(u) == IF u.hi = 1 THEN u.lo - INT_MAX - 1 ELSE u.lo

\* The i_size values of the restored inodes, below and from 2^31.
RestoreSizes ==
  {Size32(0, lo) : lo \in {0, 1, block_size_ - 1, block_size_, block_size_ + 1,
                           2 * block_size_, 3 * block_size_ + 1, INT_MAX}}
  \cup {Size32(1, 0), Size32(1, 1), Size32(1, INT_MAX)}

\* Regular files with valid direct pointers and an optional indirect block; dtime 7 is
\* a deleted inode.
RestoreInodes ==
  { MkInode(blk, ind, 0, 0, FALSE, 8, size, dtime) :
      blk \in DirectShapes \ {[NoDirect EXCEPT ![3] = BadPtr]}, ind \in {0, 3},
      size \in RestoreSizes, dtime \in {0, 7} }

\* What lstat finds at outputdir + outfile before the call: nothing, a regular file
\* left by an earlier run or by the user (empty or not), or a directory.
DestFiles ==
  { NoFile,
    [kind |-> "regular", len |-> 0, origin |-> "previous"],
    [kind |-> "regular", len |-> block_size_ + 1, origin |-> "previous"],
    [kind |-> "directory", len |-> 0, origin |-> "previous"] }

\* Lines 4976-5012.  What the parent directory of the destination is when restore_file
\* goes on: "none" for a path without slash; a missing parent is restored first by
\* restore_file(dirname), which creates it, finds no inode for it and leaves it
\* missing, or ends the run when mkdir fails.
lstat_parent(parent) ==
  IF parent = "absent" THEN {"directory", "absent", "mkdir_failed"} ELSE {parent}

\* std::ofstream::open(name) with the default mode ios_base::out, which implies
\* trunc: it fails on a directory and in a missing directory, creates a missing file
\* and empties an existing one.
ofstream_open(f, parent) ==
  IF f.kind = "directory" \/ parent = "absent" THEN [ok |-> FALSE, file |-> f]
  ELSE [ok |-> TRUE, file |-> [kind |-> "regular", len |-> 0, origin |-> "restored"]]

\* The journal of the restored device: none, or two copies of the inode table block,
\* the younger one in the earlier journal block.
RestoreScan ==
  <<Tag(FirstJournalBlock + 2, 1, InodeTableBlock),
    Tag(FirstJournalBlock + 1, MaxSequence, InodeTableBlock)>>

\* The inodes of the further paths that dump_names hands to restore_file.
NextInodes ==
  {r \in RestoreInodes :
     r.block = [NoDirect EXCEPT ![1] = 5] /\ r.ind = 0 /\ r.size = Size32(0, 1)}

InitRestore ==
  /\ rpc = "start"
  /\ real_inode \in RestoreInodes
  /\ undeleted = NoResult
  /\ \/ IdleJournal /\ commandline_after = 0
     \/ /\ real_inode \in NextInodes
        /\ commandline_after \in Afters
        /\ jpc = "indexed"
        /\ all_descriptors = RestoreScan
        /\ journal_inode_copy \in
             [{FirstJournalBlock + 1, FirstJournalBlock + 2} -> {DeletedAt(t) : t \in Dtimes}]
        /\ LET st == AssembleLoop(all_descriptors, 1, [stm |-> EmptyMap, b2d |-> EmptyMap,
                                                       bij |-> EmptyMap, ok |-> TRUE])
           IN /\ sequence_transaction_map = st.stm
              /\ block_to_descriptors_map = st.b2d
              /\ block_in_journal_to_descriptors_map = st.bij
        /\ journal_bitmaps = NoBitmaps
        /\ real_block = NoRealBlock
  /\ \E r3 \in RowShapes(4) : disk = DiskOf(ZeroRow, ZeroRow, r3)
  /\ wpc = "idle"
  /\ inode = NoInode
  /\ indirect_mask = direct_bit
  /\ emitted = <<>>
  /\ reused_or_corrupted = "none"
  /\ remaining_size = 0
  /\ todo = <<>>
  /\ written = 0
  /\ lens = <<>>
  /\ out_good = TRUE
  /\ \E f \in DestFiles, n \in {0, 1},
        parent \in {"none", "directory", "absent", "not_directory", "lstat_error"} :
       /\ parent # "directory" => f = NoFile
       /\ dest = [was |-> f, now |-> f, parent |-> parent, done |-> <<>>, remaining |-> n]
  /\ IdleStages /\ IdleMain /\ IdleDir /\ IdleScan /\ IdleReentry /\ IdleIterate /\ IdleVector

\* restore_file up to the construction of Data: the check of the parent directory
\* (which ends the run when the parent is no directory), get_undeleted_inode, the
\* open of the output file, and the list of blocks iterate_over_all_blocks_of is going to hand to
\* restore_file_action.
RestoreOpen ==
  /\ rpc = "start"
  /\ \E parent \in lstat_parent(dest.parent) :
       LET res == get_undeleted_inode(real_inode, block_to_descriptors_map,
                                      journal_inode_copy, commandline_after)
           opened == ofstream_open(dest.now, parent)
       IN
       IF parent \in {"lstat_error", "not_directory", "mkdir_failed"}
       THEN /\ rpc' = IF parent = "lstat_error" THEN "failed" ELSE "exited"
            /\ UNCHANGED <<undeleted, inode, remaining_size, todo, dest>>
       ELSE
        /\ undeleted' = res
        /\ IF res.kind \in {"ui_no_inode", "ui_inode_too_old"}
           THEN /\ rpc' = "skipped"
                /\ dest' = [dest EXCEPT !.parent = parent]
                /\ UNCHANGED <<inode, remaining_size, todo>>
           ELSE IF ~opened.ok
           THEN /\ rpc' = "open_failed"
                /\ dest' = [dest EXCEPT !.parent = parent]
                /\ UNCHANGED <<inode, remaining_size, todo>>
           ELSE /\ rpc' = "writing"
                /\ dest' = [dest EXCEPT !.now = opened.file, !.parent = parent]
                /\ inode' = res.inode
                /\ remaining_size' = ToInt32(res.inode.size)
                /\ todo' = iterate_over_all_blocks_of(disk, res.inode, direct_bit).out
  /\ UNCHANGED <<wpc, disk, indirect_mask, emitted, reused_or_corrupted>>
  /\ UNCHANGED <<written, lens, out_good, real_inode, commandline_after>>
  /\ UNCHANGED <<journalVars, stageVars, mainVars, dirVars, scanVars, reentryVars, iterVars, vectorVars>>

\* One call of restore_file_action.  A negative len writes nothing; whether the stream
\* then reports failure is left to the library.
RestoreFileAction ==
  /\ rpc = "writing"
  /\ todo # <<>>
  /\ LET len == Min(remaining_size, block_size_) IN
       /\ lens' = Append(lens, len)
       /\ written' = IF len > 0 THEN written + len ELSE written
       /\ dest' = [dest EXCEPT !.now.len = IF len > 0 THEN @ + len ELSE @]
       /\ \E good \in BOOLEAN :
            /\ len >= 0 => good
            /\ out_good' = good
            /\ rpc' = IF good THEN "writing" ELSE "aborted"
       /\ remaining_size' = remaining_size - len
  /\ emitted' = Append(emitted, Head(todo))
  /\ todo' = Tail(todo)
  /\ UNCHANGED <<wpc, inode, disk, indirect_mask, reused_or_corrupted>>
  /\ UNCHANGED <<journalVars, undelVars, stageVars, mainVars, dirVars, scanVars, reentryVars, iterVars, vectorVars>>

\* The return of iterate_over_all_blocks_of and out.close().
RestoreClose ==
  /\ rpc = "writing"
  /\ todo = <<>>
  /\ rpc' = "closed"
  /\ reused_or_corrupted' = iterate_over_all_blocks_of(disk, inode, direct_bit).ret
  /\ UNCHANGED <<wpc, inode, disk, indirect_mask, emitted>>
  /\ UNCHANGED <<remaining_size, todo, written, lens, out_good, dest>>
  /\ UNCHANGED <<journalVars, undelVars, stageVars, mainVars, dirVars, scanVars, reentryVars, iterVars, vectorVars>>

\* The return of restore_file to the loop of dump_names (lines 4729-4735), which
\* calls it for the next path; an assert that failed ended the run.
RestoreNext ==
  /\ rpc \in {"skipped", "failed", "open_failed", "closed"}
  /\ dest.remaining > 0
  /\ rpc' = "start"
  /\ real_inode' \in NextInodes
  /\ undeleted' = NoResult
  /\ \E f \in DestFiles :
       dest' = [was |-> f, now |-> f, parent |-> "directory",
                done |-> Append(dest.done, rpc), remaining |-> dest.remaining - 1]
  /\ inode' = NoInode
  /\ emitted' = <<>>
  /\ reused_or_corrupted' = "none"
  /\ remaining_size' = 0
  /\ todo' = <<>>
  /\ written' = 0
  /\ lens' = <<>>
  /\ UNCHANGED <<wpc, disk, indirect_mask, out_good, commandline_after>>
  /\ UNCHANGED <<journalVars, stageVars, mainVars, dirVars, scanVars, reentryVars, iterVars, vectorVars>>

NextRestore == RestoreOpen \/ RestoreFileAction \/ RestoreClose \/ RestoreNext

SpecRestore == InitRestore /\ [][NextRestore]_vars

\* min(size - done, block_size_) for a 32-bit unsigned size, never below 0.
ExpectedLen(size, done) ==
  IF size.hi = 1 THEN block_size_ ELSE Min(Max(size.lo - done, 0), block_size_)

\* C10: the restore of a regular file from a live inode copy ends with
\* min(inode.size, n * block_size) bytes written, n being the number of blocks
\* enumerated, the k-th block contributing min(remaining size, block_size) bytes, for
\* every 32-bit inode.size.
C10_BytesWritten ==
  rpc \in {"closed", "aborted"} =>
    /\ rpc = "closed"
    /\ Len(lens) = Len(emitted)
    /\ \A k \in 1..Len(lens) : lens[k] = ExpectedLen(inode.size, (k - 1) * block_size_)
    /\ written = IF inode.size.hi = 1 THEN Len(emitted) * block_size_
                 ELSE Min(inode.size.lo, Len(emitted) * block_size_)

\* The same statement for sizes below 2^31 only.
C10_BelowTwoTo31 == inode.size.hi = 0 => C10_BytesWritten

\* Two files hold the same content: the same number of bytes, and, unless both are
\* empty, bytes of the same origin.
SameContent(f, g) ==
  /\ f.kind = g.kind
  /\ f.len = g.len
  /\ f.len = 0 \/ f.origin = g.origin

\* C14's case: the on-disk inode is deleted, and the journal holds no copy with
\* dtime 0, or holds a copy deleted before the --after cutoff ahead of every copy
\* with dtime 0, in the order get_inodes_from_journal returns them.
NoUsableCopy ==
  /\ real_inode.dtime # 0
  /\ LET copies == get_inodes_from_journal(block_to_descriptors_map, journal_inode_copy)
         Live == {k \in 1..Len(copies) : copies[k].inode.dtime = 0}
     IN \/ Live = {}
        \/ \E k \in 1..Len(copies) :
             /\ copies[k].inode.dtime # 0
             /\ commandline_after # 0 /\ copies[k].inode.dtime < commandline_after
             /\ \A j \in Live : k < j

C11_ExistingFileUntouched ==
  (rpc \in {"closed", "skipped", "open_failed", "aborted"} /\ dest.was.kind = "regular")
    => SameContent(dest.now, dest.was)

(***************************************************************************)
(* Stage 2: init_dir_inode_to_block_cache (ext3grep.cc 3682-4061).         *)
(***************************************************************************)
\* s_maxlen of the journal: its superblock and two log blocks.
journal_maxlen == 3

JournalBlocks == {FirstJournalBlock + k : k \in 0..(journal_maxlen - 1)}

is_journal(blocknr) == blocknr \in JournalBlocks

Range(q) == {q[k] : k \in 1..Len(q)}

RemoveAt(q, k) == [j \in 1..(Len(q) - 1) |-> IF j < k THEN q[j] ELSE q[j + 1]]

\* The asserts of blocknr_vector_type::remove.
bv_remove_ok(bv, blknr) == Len(bv) >= 2 /\ blknr \in Range(bv)

\* blocknr_vector_type::remove: the last block takes the place of the removed one.
bv_remove(bv, blknr) ==
  LET found == CHOOSE j \in 1..Len(bv) : bv[j] = blknr /\ \A m \in 1..(j - 1) : bv[m] # blknr
  IN [j \in 1..(Len(bv) - 1) |-> IF j = found THEN bv[Len(bv)] ELSE bv[j]]

Bump(c, field) == [c EXCEPT ![field] = @ + 1]

\* The end of an iteration of the first loop: the counts of referenced inodes.
Tally(st, bv, allocated) ==
  IF bv = <<>> THEN st
  ELSE LET c1 == Bump(st.counters, "inc")
           c2 == IF Len(bv) >= 2 THEN Bump(c1, "sinc") ELSE c1
           c3 == IF Len(bv) >= 2 /\ allocated THEN Bump(c2, "asinc") ELSE c2
       IN [st EXCEPT !.counters = c3]

\* A mutant of the live shortcut that keeps the candidates found by the scan.
LiveOne_keep(st, i) == Tally(st, st.cache[i], inode_table[i].allocated)

\* One iteration of the first loop of stage 2 (lines 3818-3867).
LiveOne(st, i) ==
  LET bv == st.cache[i]
      ino == inode_table[i]
  IN IF ino.allocated /\ ino.directory
     THEN LET s1 == [st EXCEPT !.counters = Bump(@, "ainc")] IN
          IF ino.first_block = 0 THEN [s1 EXCEPT !.ok = FALSE]
          ELSE IF bv = <<>> THEN [s1 EXCEPT !.warnings = Append(@, i)]
          ELSE IF ino.first_block \notin Range(bv) THEN [s1 EXCEPT !.ok = FALSE]
          ELSE Tally([s1 EXCEPT !.cache[i] = <<ino.first_block>>,
                                !.counters = Bump(@, "cinc"),
                                !.rule[i] = "live"],
                     bv, TRUE)
     ELSE Tally(st, bv, ino.allocated)

RECURSIVE LiveLoop(_, _)
LiveLoop(st, i) ==
  IF i > InodeCount \/ ~st.ok THEN st ELSE LiveLoop(LiveOne(st, i), i + 1)

\* The first while loop of the journal pruning (lines 3902-3926): it runs over the
\* leading journal blocks and stops at the first block outside the journal.
RECURSIVE LeadingJournal(_, _, _, _)
LeadingJournal(bij, dirs, k, acc) ==
  IF k > Len(dirs) THEN acc
  ELSE LET a1 == [acc EXCEPT !.total = @ + 1] IN
       IF is_journal(dirs[k])
       THEN IF dirs[k] \notin DOMAIN bij
            THEN [a1 EXCEPT !.journal = @ + 1, !.ok = FALSE]
            ELSE LeadingJournal(bij, dirs, k + 1,
                   [a1 EXCEPT !.journal = @ + 1,
                              !.highest = Max(@, bij[dirs[k]].sequence)])
       ELSE a1

\* The second while loop of the journal pruning (lines 3929-3953); r holds the list
\* dirs, the cache entry bv, the local size and the outcome of the asserts.
RECURSIVE PruneLoop(_, _, _, _, _)
PruneLoop(bij, keep_one, highest, r, k) ==
  IF k > Len(r.dirs) \/ ~r.ok THEN r
  ELSE LET b == r.dirs[k] IN
       IF is_journal(b)
       THEN IF keep_one /\ bij[b].sequence = highest
            THEN PruneLoop(bij, keep_one, highest, r, k + 1)
            ELSE PruneLoop(bij, keep_one, highest,
                   [dirs |-> RemoveAt(r.dirs, k),
                    bv |-> IF r.size > 1
                           THEN (IF bv_remove_ok(r.bv, b) THEN bv_remove(r.bv, b) ELSE r.bv)
                           ELSE <<>>,
                    size |-> r.size - 1,
                    ok |-> r.size > 1 => bv_remove_ok(r.bv, b)],
                   k)
       ELSE PruneLoop(bij, keep_one, highest, r, k + 1)

\* The search for the candidate with the highest journal sequence (lines 3964-3977);
\* best is -1 while no candidate has a descriptor.
RECURSIVE BestLoop(_, _, _, _, _)
BestLoop(b2d, dirs, k, max_sequence, best) ==
  IF k > Len(dirs) THEN best
  ELSE LET sequence_found == find_largest_journal_sequence_number(b2d, dirs[k]) IN
       IF sequence_found > max_sequence
       THEN BestLoop(b2d, dirs, k + 1, sequence_found, dirs[k])
       ELSE BestLoop(b2d, dirs, k + 1, max_sequence, best)

\* The removal of every candidate but best_blocknr (lines 3980-3990).
RECURSIVE KeepBest(_, _, _)
KeepBest(best, r, k) ==
  IF k > Len(r.dirs) \/ ~r.ok THEN r
  ELSE IF r.dirs[k] # best
       THEN KeepBest(best,
              [r EXCEPT !.dirs = RemoveAt(@, k),
                        !.bv = IF bv_remove_ok(r.bv, r.dirs[k])
                               THEN bv_remove(r.bv, r.dirs[k]) ELSE r.bv,
                        !.ok = bv_remove_ok(r.bv, r.dirs[k])],
              k)
       ELSE KeepBest(best, r, k + 1)

\* The removal of blocks that are exactly equal to an earlier one (lines 4000-4019).
RECURSIVE DropDuplicates(_, _)
DropDuplicates(r, k) ==
  IF k > Len(r.dirs) \/ ~r.ok THEN r
  ELSE IF \E j \in 1..(k - 1) : dir_content[r.dirs[j]] = dir_content[r.dirs[k]]
       THEN DropDuplicates(
              [r EXCEPT !.dirs = RemoveAt(@, k),
                        !.bv = IF bv_remove_ok(r.bv, r.dirs[k])
                               THEN bv_remove(r.bv, r.dirs[k]) ELSE r.bv,
                        !.ok = bv_remove_ok(r.bv, r.dirs[k])],
              k)
       ELSE DropDuplicates(r, k + 1)

\* Stores the outcome of one inode: the cache entry, a counter and the rule that
\* settled it.
Settle(st, i, r, counter, rule) ==
  [st EXCEPT !.cache[i] = r.bv,
             !.ok = r.ok,
             !.counters = IF counter = "" \/ ~r.ok THEN @ ELSE Bump(@, counter),
             !.rule[i] = IF ~r.ok THEN @ ELSE rule]

\* A mutant that collapses exactly equal blocks before it looks for the highest
\* journal sequence.
ResolveOne_equal_first(st, i) ==
  LET bv == st.cache[i]
      bij == block_in_journal_to_descriptors_map
      b2d == block_to_descriptors_map
  IN IF Len(bv) <= 1 THEN st
     ELSE
       LET lead == LeadingJournal(bij, bv, 1,
                     [highest |-> 0, total |-> 0, journal |-> 0, ok |-> TRUE])
       IN IF ~lead.ok THEN [st EXCEPT !.ok = FALSE]
          ELSE
            LET r1 == PruneLoop(bij, lead.total = lead.journal, lead.highest,
                                [dirs |-> bv, bv |-> bv, size |-> Len(bv), ok |-> TRUE], 1)
            IN IF ~r1.ok THEN Settle(st, i, r1, "", "")
               ELSE IF Len(r1.dirs) = 1 THEN Settle(st, i, r1, "jsinc", "journal")
               ELSE IF Len(r1.dirs) = 0 \/ r1.size # Len(r1.dirs)
                    THEN Settle(st, i, [r1 EXCEPT !.ok = FALSE], "", "")
               ELSE
                 LET r2 == DropDuplicates(r1, 1)
                 IN IF ~r2.ok THEN Settle(st, i, r2, "", "")
                    ELSE IF Len(r2.dirs) = 1 THEN Settle(st, i, r2, "esinc", "equal")
                    ELSE
                      LET best == BestLoop(b2d, r2.dirs, 1, 0, -1)
                          r3 == IF best # -1 THEN KeepBest(best, r2, 1) ELSE r2
                      IN IF r3.ok /\ Len(r3.dirs) = 1
                         THEN Settle(st, i, r3, "hsinc", "sequence")
                         ELSE Settle(st, i, r3, "", "unresolved")

\* One iteration of the second loop of stage 2 (lines 3877-4028).
ResolveOne(st, i) ==
  LET bv == st.cache[i]
      bij == block_in_journal_to_descriptors_map
      b2d == block_to_descriptors_map
  IN IF Len(bv) <= 1 THEN st
     ELSE
       LET lead == LeadingJournal(bij, bv, 1,
                     [highest |-> 0, total |-> 0, journal |-> 0, ok |-> TRUE])
       IN IF ~lead.ok THEN [st EXCEPT !.ok = FALSE]
          ELSE
            LET r1 == PruneLoop(bij, lead.total = lead.journal, lead.highest,
                                [dirs |-> bv, bv |-> bv, size |-> Len(bv), ok |-> TRUE], 1)
            IN IF ~r1.ok THEN Settle(st, i, r1, "", "")
               ELSE IF Len(r1.dirs) = 1 THEN Settle(st, i, r1, "jsinc", "journal")
               ELSE IF Len(r1.dirs) = 0 \/ r1.size # Len(r1.dirs)
                    THEN Settle(st, i, [r1 EXCEPT !.ok = FALSE], "", "")
               ELSE
                 LET best == BestLoop(b2d, r1.dirs, 1, 0, -1)
                     r2 == IF best # -1 THEN KeepBest(best, r1, 1) ELSE r1
                 IN IF ~r2.ok THEN Settle(st, i, r2, "", "")
                    ELSE IF Len(r2.dirs) = 1 THEN Settle(st, i, r2, "hsinc", "sequence")
                    ELSE
                      LET r3 == DropDuplicates(r2, 1)
                      IN IF r3.ok /\ Len(r3.dirs) = 1
                         THEN Settle(st, i, r3, "esinc", "equal")
                         ELSE Settle(st, i, r3, "", "unresolved")

RECURSIVE ResolveLoop(_, _)
ResolveLoop(st, i) ==
  IF i > InodeCount \/ ~st.ok THEN st ELSE ResolveLoop(ResolveOne(st, i), i + 1)

\* The inodes the ambiguity list prints, with their blocks (lines 4046-4056).
RECURSIVE Ambiguous(_, _)
Ambiguous(cache, i) ==
  IF i > InodeCount THEN <<>>
  ELSE IF Len(cache[i]) >= 2
       THEN <<[inode |-> i, blocks |-> cache[i]]>> \o Ambiguous(cache, i + 1)
       ELSE Ambiguous(cache, i + 1)

\* The blocks stage 1 can find a directory start in: two file system blocks that
\* journal tags can name, and the two log blocks of the journal.
DirBlocks == {InodeTableBlock, FirstJournalBlock + 1, FirstJournalBlock + 2, OtherBlock}

RECURSIVE Ascending(_)
Ascending(S) ==
  IF S = {} THEN <<>>
  ELSE LET m == CHOOSE x \in S : \A y \in S : x <= y IN <<m>> \o Ascending(S \ {m})

\* The result of the stage-1 scan over blocks in ascending order, starts[b] being the
\* inode of the "." entry of block b, or 0 when b is not a directory start.
ScanCache(starts) ==
  [i \in 1..InodeCount |-> Ascending({b \in DOMAIN starts : starts[b] = i})]

\* What the inode bitmap and the inode table say about one inode: not allocated,
\* allocated to something else, or a live directory with a first block.
InodeKinds ==
  {[allocated |-> FALSE, directory |-> TRUE, first_block |-> 0],
   [allocated |-> TRUE, directory |-> FALSE, first_block |-> InodeTableBlock]}
  \cup {[allocated |-> TRUE, directory |-> TRUE, first_block |-> b] :
          b \in {0, InodeTableBlock, OtherBlock}}

\* Journals of the directory stages: none, the youngest copy in the last log block, the
\* youngest copy in the first log block, equal sequences, and a log block without tag.
Stage2Scans ==
  { <<>>,
    <<Tag(FirstJournalBlock + 1, 1, InodeTableBlock),
      Tag(FirstJournalBlock + 2, MaxSequence, OtherBlock)>>,
    <<Tag(FirstJournalBlock + 1, MaxSequence, InodeTableBlock),
      Tag(FirstJournalBlock + 2, 1, InodeTableBlock)>>,
    <<Tag(FirstJournalBlock + 1, 1, OtherBlock),
      Tag(FirstJournalBlock + 2, 1, InodeTableBlock)>>,
    <<Tag(FirstJournalBlock + 1, MaxSequence, OtherBlock)>> }

\* The entries of the directory blocks: all different, or pairwise equal.
DirContents ==
  { [b \in DirBlocks |-> b],
    [b \in DirBlocks |-> IF b = OtherBlock THEN InodeTableBlock
                         ELSE IF b = FirstJournalBlock + 2 THEN FirstJournalBlock + 1
                         ELSE b] }

InitStage2 ==
  /\ s2pc = "scanned"
  /\ \E starts \in [DirBlocks -> 0..InodeCount] :
       dir_inode_to_block_cache = ScanCache(starts)
  /\ stage1 = [cache |-> dir_inode_to_block_cache, extended |-> <<>>]
  /\ inode_table \in [1..InodeCount -> InodeKinds]
  /\ extended_blocks = <<>>
  /\ dir_content \in DirContents
  /\ counters = NoCounters
  /\ warnings = <<>>
  /\ resolved_by = [i \in 1..InodeCount |-> "none"]
  /\ report = NoReport
  /\ jpc = "indexed"
  /\ \E scan \in Stage2Scans :
       /\ all_descriptors \in SortDescriptors(scan)
       /\ journal_inode_copy = [b \in {scan[k].block : k \in 1..Len(scan)} |-> DeletedAt(0)]
  /\ LET st == AssembleLoop(all_descriptors, 1, [stm |-> EmptyMap, b2d |-> EmptyMap,
                                                 bij |-> EmptyMap, ok |-> TRUE])
     IN /\ sequence_transaction_map = st.stm
        /\ block_to_descriptors_map = st.b2d
        /\ block_in_journal_to_descriptors_map = st.bij
        /\ journal_bitmaps = NoBitmaps
        /\ real_block = NoRealBlock
  /\ IdleWalk /\ IdleUndel /\ IdleRestore /\ IdleCache /\ IdleTree /\ IdleMain /\ IdleDir /\ IdleScan /\ IdleReentry /\ IdleIterate /\ IdleVector

Stage2State ==
  [cache |-> dir_inode_to_block_cache, counters |-> counters, warnings |-> warnings,
   rule |-> resolved_by, ok |-> TRUE]

Stage2Store(st, pc) ==
  /\ dir_inode_to_block_cache' = st.cache
  /\ counters' = st.counters
  /\ warnings' = st.warnings
  /\ resolved_by' = st.rule
  /\ s2pc' = IF st.ok THEN pc ELSE "aborted"

\* The first loop of stage 2: allocated directories take their block[0].
Stage2Live ==
  /\ s2pc = "scanned"
  /\ Stage2Store(LiveLoop(Stage2State, 1), "live")
  /\ UNCHANGED <<stage1, inode_table, extended_blocks, dir_content, report>>
  /\ UNCHANGED <<walkVars, journalVars, undelVars, restoreVars, mainVars, dirVars, cacheVars, treeVars, scanVars, reentryVars, iterVars, vectorVars>>

\* The second loop of stage 2: inodes that still have several candidates.
Stage2Resolve ==
  /\ s2pc = "live"
  /\ Stage2Store(ResolveLoop(Stage2State, 1), "resolved")
  /\ UNCHANGED <<stage1, inode_table, extended_blocks, dir_content, report>>
  /\ UNCHANGED <<walkVars, journalVars, undelVars, restoreVars, mainVars, dirVars, cacheVars, treeVars, scanVars, reentryVars, iterVars, vectorVars>>

\* The result of stage two that is printed at the end (lines 4030-4060).
Stage2Report ==
  /\ s2pc = "resolved"
  /\ s2pc' = "reported"
  /\ LET remaining == counters.sinc - counters.asinc - counters.jsinc
                        - counters.esinc - counters.hsinc
     IN report' = IF remaining > 0
                  THEN [printed |-> TRUE, accounted |-> FALSE,
                        listed |-> Ambiguous(dir_inode_to_block_cache, 1)]
                  ELSE [printed |-> TRUE, accounted |-> TRUE, listed |-> <<>>]
  /\ UNCHANGED <<stage1, inode_table, dir_inode_to_block_cache, extended_blocks, dir_content,
                 counters, warnings, resolved_by>>
  /\ UNCHANGED <<walkVars, journalVars, undelVars, restoreVars, mainVars, dirVars, cacheVars, treeVars, scanVars, reentryVars, iterVars, vectorVars>>

NextStage2 == Stage2Live \/ Stage2Resolve \/ Stage2Report

SpecStage2 == InitStage2 /\ [][NextStage2]_vars

\* C3: when stage 2 is over, an inode that is allocated, has directory mode and had a
\* stage-1 candidate has the single candidate inode.block[0], whether or not block[0]
\* was a candidate.  Stated for the first allocated directory inode, which the first
\* loop always reaches.
C3_LiveTakesFirstBlock ==
  s2pc \in {"reported", "aborted"} =>
    \A i \in 1..InodeCount :
      (/\ inode_table[i].allocated /\ inode_table[i].directory
       /\ stage1.cache[i] # <<>>
       /\ \A j \in 1..(i - 1) : ~(inode_table[j].allocated /\ inode_table[j].directory))
        => dir_inode_to_block_cache[i] = <<inode_table[i].first_block>>

\* What the first loop does establish: once it has run to its end, an allocated
\* directory inode with stage-1 candidates has the single candidate block[0], and
\* block[0] was one of the candidates.
C3_AfterLiveLoop ==
  s2pc \in {"live", "resolved", "reported"} =>
    \A i \in 1..InodeCount :
      (inode_table[i].allocated /\ inode_table[i].directory /\ stage1.cache[i] # <<>>)
        => /\ dir_inode_to_block_cache[i] = <<inode_table[i].first_block>>
           /\ inode_table[i].first_block \in Range(stage1.cache[i])

\* The candidates the first loop of stage 2 left, recomputed from the result of
\* stage 1.
AfterLive ==
  LiveLoop([cache |-> stage1.cache, counters |-> NoCounters, warnings |-> <<>>,
            rule |-> [i \in 1..InodeCount |-> "none"], ok |-> TRUE], 1).cache

\* C18: an inode with more than one candidate after the live shortcut loses every
\* journal-block candidate when one of its candidates is outside the journal, and
\* keeps exactly one candidate, the one whose journal descriptor has the highest
\* sequence number, when all its candidates are journal blocks.
C18_JournalPruning ==
  s2pc \in {"resolved", "reported"} =>
    \A i \in 1..InodeCount :
      LET bv == AfterLive[i]
          now == dir_inode_to_block_cache[i]
          bij == block_in_journal_to_descriptors_map
      IN Len(bv) >= 2 =>
           IF \E b \in Range(bv) : ~is_journal(b)
           THEN \A b \in Range(now) : ~is_journal(b)
           ELSE /\ Len(now) = 1
                /\ \A b \in Range(bv) : bij[now[1]].sequence >= bij[b].sequence

\* The same without the inodes whose journal-block candidates share the highest
\* sequence number: this much the pruning does establish.
C18_WithoutTies ==
  s2pc \in {"resolved", "reported"} =>
    \A i \in 1..InodeCount :
      LET bv == AfterLive[i]
          now == dir_inode_to_block_cache[i]
          bij == block_in_journal_to_descriptors_map
      IN Len(bv) >= 2 =>
           IF \E b \in Range(bv) : ~is_journal(b)
           THEN \A b \in Range(now) : ~is_journal(b)
           ELSE (\A b, c \in Range(bv) : b # c => bij[b].sequence # bij[c].sequence) =>
                  /\ Len(now) = 1
                  /\ \A b \in Range(bv) : bij[now[1]].sequence >= bij[b].sequence

\* What the journal pruning leaves of the candidates bv: the blocks outside the
\* journal, or, when there are none, the journal blocks of the highest sequence.
Pruned(bv) ==
  LET bij == block_in_journal_to_descriptors_map
  IN IF \E b \in Range(bv) : ~is_journal(b)
     THEN {b \in Range(bv) : ~is_journal(b)}
     ELSE {b \in Range(bv) : \A c \in Range(bv) : bij[b].sequence >= bij[c].sequence}

\* The largest sequence number among the descriptors of a block, 0 without descriptor.
LargestSequence(b) ==
  LET b2d == block_to_descriptors_map
  IN IF b \notin DOMAIN b2d THEN 0
     ELSE LET found == {b2d[b][k].sequence : k \in 1..Len(b2d[b])}
          IN CHOOSE m \in found : \A n \in found : m >= n

\* C19: the rules run in the order live shortcut, journal pruning, highest journal
\* sequence, exact equality, each only on an inode that the earlier rules left with
\* more than one candidate; the highest-sequence rule, when a remaining candidate has
\* an entry in block_to_descriptors, leaves exactly one candidate, whose largest
\* sequence number is the maximum over the candidates that remained.
C19_RuleOrder ==
  [][/\ \A i \in 1..InodeCount :
          (resolved_by'[i] = "live" /\ resolved_by[i] # "live") => s2pc = "scanned"
     /\ \A i \in 1..InodeCount :
          (resolved_by'[i] \notin {"live", "none"} /\ resolved_by'[i] # resolved_by[i])
            => (s2pc = "live" /\ resolved_by[i] = "none")
     /\ (s2pc = "live" /\ s2pc' = "resolved") =>
          \A i \in 1..InodeCount :
            LET bv == dir_inode_to_block_cache[i]
                now == dir_inode_to_block_cache'[i]
                rule == resolved_by'[i]
                left == Pruned(bv)
                known == {b \in left : b \in DOMAIN block_to_descriptors_map}
            IN /\ Len(bv) <= 1 => (now = bv /\ rule = resolved_by[i])
               /\ Len(bv) >= 2 =>
                    /\ rule = "journal" <=> Cardinality(left) = 1
                    /\ rule = "journal" => Range(now) = left
                    /\ rule = "sequence" <=> (Cardinality(left) >= 2 /\ known # {})
                    /\ rule = "sequence" =>
                         /\ Len(now) = 1
                         /\ now[1] \in left
                         /\ \A b \in left : LargestSequence(now[1]) >= LargestSequence(b)
                    /\ rule \in {"equal", "unresolved"} <=>
                         (Cardinality(left) >= 2 /\ known = {})
                    /\ rule = "equal" => (Len(now) = 1 /\ now[1] \in left)
                    /\ rule = "unresolved" => Len(now) >= 2
    ]_vars

\* An inode with three candidates after the live shortcut: the pruning removes the
\* journal block, and of the two blocks left, both with descriptors, the one with
\* the larger sequence number survives.
C19_Witness ==
  /\ s2pc = "resolved"
  /\ \E i \in 1..InodeCount :
       /\ resolved_by[i] = "sequence"
       /\ Len(AfterLive[i]) = 3
       /\ Cardinality(Pruned(AfterLive[i])) = 2
       /\ \E b \in Pruned(AfterLive[i]) :
            /\ LargestSequence(b) > 0
            /\ LargestSequence(b) < LargestSequence(dir_inode_to_block_cache[i][1])

\* C20: after stage 2 every inode with more than one candidate is in the ambiguity
\* list with all its blocks, and "All directory inodes are accounted for!" is printed
\* only when no inode has more than one candidate, also when an inode with several
\* candidates is allocated without being a directory.
C20_AmbiguousListed ==
  s2pc = "reported" =>
    /\ \A i \in 1..InodeCount :
         Len(dir_inode_to_block_cache[i]) >= 2 =>
           \E k \in 1..Len(report.listed) :
             report.listed[k] = [inode |-> i, blocks |-> dir_inode_to_block_cache[i]]
    /\ report.accounted => \A i \in 1..InodeCount : Len(dir_inode_to_block_cache[i]) <= 1

\* The same when no allocated inode that is not a directory had several candidates
\* after stage 1: then the counters do add up.
C20_WithoutAllocatedFiles ==
  (\A i \in 1..InodeCount :
     (inode_table[i].allocated /\ ~inode_table[i].directory) => Len(stage1.cache[i]) <= 1)
    => C20_AmbiguousListed

(***************************************************************************)
(* The stage-1 cache file (ext3grep.cc 3735-3816).  The file is a sequence *)
(* of items: a number written with operator<< is one item, its value; the  *)
(* other characters are the negative codes below.                          *)
(***************************************************************************)
\* '#'
HASH == -1
\* '\n'
NL == -2
\* ' '
SP == -3
\* ':'
COLON == -4
\* The rest of a comment line.
TEXT == -5
\* A decimal digit read as a single character.
DIGIT == -6
\* The value of a char that has not been assigned.
NOCHAR == -7
\* traits_type::eof() converted to char.
EOFCHAR == -8

CommentLine == <<HASH, TEXT, NL>>

RECURSIVE WriteBlocks(_, _)
WriteBlocks(bv, j) ==
  IF j > Len(bv) THEN <<>> ELSE <<SP, bv[j]>> \o WriteBlocks(bv, j + 1)

\* The loop over the inodes 1 .. inode_count_ that writes "i : b1 b2 ...\n".
RECURSIVE WriteInodes(_, _)
WriteInodes(cache, i) ==
  IF i > InodeCount THEN <<>>
  ELSE (IF cache[i] = <<>> THEN <<>>
        ELSE <<i, SP, COLON>> \o WriteBlocks(cache[i], 1) \o <<NL>>)
       \o WriteInodes(cache, i + 1)

RECURSIVE WriteExtended(_, _)
WriteExtended(ext, k) ==
  IF k > Len(ext) THEN <<>> ELSE <<ext[k], NL>> \o WriteExtended(ext, k + 1)

\* The contents of the stage-1 cache file (lines 3735-3755).
WriteStage1(cache, ext) ==
  CommentLine \o CommentLine \o CommentLine \o WriteInodes(cache, 1)
    \o CommentLine \o WriteExtended(ext, 1)

\* ---- std::ifstream on the items ------------------------------------------
\* rd.pos is the next item, rd.mid says that the first digit of the number at pos has
\* been taken, rd.fail and rd.eof are failbit and eofbit, rd.c is the variable c.
Good(rd) == ~rd.fail /\ ~rd.eof

\* istream::get(char&): c keeps its value when no character is extracted.
Get(file, rd) ==
  IF ~Good(rd) THEN [rd EXCEPT !.fail = TRUE]
  ELSE IF rd.pos > Len(file) THEN [rd EXCEPT !.fail = TRUE, !.eof = TRUE]
  ELSE IF file[rd.pos] >= 0 THEN [rd EXCEPT !.c = DIGIT, !.mid = TRUE]
  ELSE [rd EXCEPT !.c = file[rd.pos], !.pos = @ + 1]

\* istream::putback: clears eofbit, and does nothing else on a failed stream.
Putback(rd) ==
  LET r == [rd EXCEPT !.eof = FALSE] IN
  IF r.fail THEN r
  ELSE IF r.mid THEN [r EXCEPT !.mid = FALSE]
  ELSE IF r.pos > 1 THEN [r EXCEPT !.pos = @ - 1]
  ELSE [r EXCEPT !.fail = TRUE]

\* istream::ignore(max, '\n'): does nothing on a stream that is not good.
Ignore(file, rd) ==
  IF ~Good(rd) THEN [rd EXCEPT !.fail = TRUE]
  ELSE LET nls == {k \in rd.pos..Len(file) : file[k] = NL} IN
       IF nls = {} THEN [rd EXCEPT !.pos = Len(file) + 1, !.eof = TRUE, !.mid = FALSE]
       ELSE [rd EXCEPT !.pos = 1 + (CHOOSE k \in nls : \A m \in nls : k <= m),
                       !.mid = FALSE]

RECURSIVE SkipWs(_, _)
SkipWs(file, pos) ==
  IF pos <= Len(file) /\ file[pos] \in {SP, NL} THEN SkipWs(file, pos + 1) ELSE pos

\* operator>>(int&): the result carries ok and the value read in val.
ReadInt(file, rd) ==
  IF ~Good(rd) THEN [rd EXCEPT !.fail = TRUE, !.ok = FALSE]
  ELSE LET p == IF rd.mid THEN rd.pos ELSE SkipWs(file, rd.pos) IN
       IF p > Len(file) THEN [rd EXCEPT !.pos = p, !.fail = TRUE, !.eof = TRUE, !.ok = FALSE]
       ELSE IF file[p] >= 0 /\ ~rd.mid
            THEN [rd EXCEPT !.pos = p + 1, !.val = file[p], !.ok = TRUE]
            ELSE [rd EXCEPT !.pos = p, !.fail = TRUE, !.ok = FALSE]

\* operator>>(char&).
ReadChar(file, rd) ==
  IF ~Good(rd) THEN [rd EXCEPT !.fail = TRUE]
  ELSE LET p == IF rd.mid THEN rd.pos ELSE SkipWs(file, rd.pos) IN
       IF p > Len(file) THEN [rd EXCEPT !.pos = p, !.fail = TRUE, !.eof = TRUE]
       ELSE IF file[p] >= 0 THEN [rd EXCEPT !.pos = p, !.c = DIGIT, !.mid = TRUE]
            ELSE [rd EXCEPT !.pos = p + 1, !.c = file[p]]

\* int istream::get(): returns eof() when no character is extracted.
Get0(file, rd) ==
  LET g == Get(file, rd) IN IF g.fail THEN [g EXCEPT !.c = EOFCHAR] ELSE g

\* The for (;;) loops that skip the comment lines (lines 3771-3781 and 3803-3813).
\* On a stream that is not good get() leaves c alone and ignore() does nothing, so an
\* iteration that starts with c = '#' on such a stream repeats for ever.
RECURSIVE CommentLoop(_, _)
CommentLoop(file, rd) ==
  IF ~Good(rd) /\ rd.c = HASH THEN [rd EXCEPT !.fail = TRUE, !.outcome = "hung"]
  ELSE LET g == Get(file, rd) IN
       IF g.c = HASH THEN CommentLoop(file, Ignore(file, g)) ELSE Putback(g)

\* while (cache >> block) of one inode line (lines 3789-3798).
RECURSIVE BlockLoop(_, _, _)
BlockLoop(file, rd, blocknr) ==
  LET r == ReadInt(file, rd) IN
  IF ~r.ok THEN [rd |-> r, blocknr |-> blocknr]
  ELSE LET g == Get0(file, r) IN
       IF g.c = SP THEN BlockLoop(file, g, Append(blocknr, r.val))
       ELSE IF g.c = NL THEN [rd |-> g, blocknr |-> Append(blocknr, r.val)]
       ELSE [rd |-> [g EXCEPT !.outcome = "aborted"], blocknr |-> Append(blocknr, r.val)]

\* while (cache >> inode) (lines 3782-3801).
RECURSIVE InodeLoop(_, _)
InodeLoop(file, rd) ==
  LET r1 == ReadInt(file, rd) IN
  IF ~r1.ok THEN r1
  ELSE LET r2 == ReadChar(file, r1) IN
       IF r2.eof THEN r2
       ELSE IF r2.c # COLON THEN [r2 EXCEPT !.outcome = "aborted"]
       ELSE LET bl == BlockLoop(file, r2, <<>>) IN
            IF bl.rd.outcome # "ok" THEN bl.rd
            ELSE IF r1.val \notin DOMAIN rd.cache THEN [bl.rd EXCEPT !.outcome = "aborted"]
            ELSE InodeLoop(file, [bl.rd EXCEPT !.cache[r1.val] = bl.blocknr])

\* while (cache >> block) extended_blocks.push_back(block) (lines 3814-3815).
RECURSIVE ExtendedLoop(_, _)
ExtendedLoop(file, rd) ==
  LET r == ReadInt(file, rd) IN
  IF ~r.ok THEN r ELSE ExtendedLoop(file, [r EXCEPT !.extended = Append(@, r.val)])

\* The reader of the stage-1 cache file (lines 3768-3816), started with the zeroed
\* dir_inode_to_block_cache array and an empty extended_blocks of a new run.
LoadStage1(file) ==
  LET rd0 == [pos |-> 1, mid |-> FALSE, fail |-> FALSE, eof |-> FALSE, c |-> NOCHAR,
              ok |-> TRUE, val |-> 0, outcome |-> "ok",
              cache |-> [i \in 0..InodeCount |-> <<>>], extended |-> <<>>]
      a == CommentLoop(file, rd0)
      b == IF a.outcome = "ok" THEN InodeLoop(file, a) ELSE a
      c == IF b.outcome = "ok"
           THEN CommentLoop(file, [b EXCEPT !.fail = FALSE, !.eof = FALSE]) ELSE b
  IN IF c.outcome = "ok" THEN ExtendedLoop(file, c) ELSE c

\* What is_directory says about a block in the stage-1 scan.
ScanKinds ==
  {[kind |-> "isdir_no", inode |-> 0], [kind |-> "isdir_extended", inode |-> 0]}
  \cup {[kind |-> "isdir_start", inode |-> i] : i \in 0..InodeCount}

InitCache1 ==
  /\ c1pc = "scanned"
  /\ cache_stage1 = <<>>
  /\ \E found \in [DirBlocks -> ScanKinds] :
       /\ dir_inode_to_block_cache =
            [i \in 0..InodeCount |->
               Ascending({b \in DirBlocks : found[b] = [kind |-> "isdir_start", inode |-> i]})]
       /\ extended_blocks = Ascending({b \in DirBlocks : found[b].kind = "isdir_extended"})
  /\ stage1 = [cache |-> dir_inode_to_block_cache, extended |-> extended_blocks]
  /\ s2pc = "idle"
  /\ inode_table = EmptyMap
  /\ dir_content = EmptyMap
  /\ counters = NoCounters
  /\ warnings = <<>>
  /\ resolved_by = EmptyMap
  /\ report = NoReport
  /\ IdleWalk /\ IdleJournal /\ IdleUndel /\ IdleRestore /\ IdleTree /\ IdleMain /\ IdleDir /\ IdleScan /\ IdleReentry /\ IdleIterate /\ IdleVector

\* The run that scanned the device writes the cache file.
WriteStage1Cache ==
  /\ c1pc = "scanned"
  /\ cache_stage1' = WriteStage1(dir_inode_to_block_cache, extended_blocks)
  /\ c1pc' = "written"
  /\ UNCHANGED stage2Vars
  /\ UNCHANGED <<walkVars, journalVars, undelVars, restoreVars, mainVars, dirVars, treeVars, scanVars, reentryVars, iterVars, vectorVars>>

\* A later run finds the cache file and loads it instead of scanning.
LoadStage1Cache ==
  /\ c1pc = "written"
  /\ LET rd == LoadStage1(cache_stage1) IN
       /\ dir_inode_to_block_cache' = rd.cache
       /\ extended_blocks' = rd.extended
       /\ c1pc' = IF rd.outcome = "ok" THEN "loaded" ELSE rd.outcome
  /\ UNCHANGED <<s2pc, stage1, inode_table, dir_content, counters, warnings, resolved_by,
                 report, cache_stage1>>
  /\ UNCHANGED <<walkVars, journalVars, undelVars, restoreVars, mainVars, dirVars, treeVars, scanVars, reentryVars, iterVars, vectorVars>>

NextCache1 == WriteStage1Cache \/ LoadStage1Cache

SpecCache1 == InitCache1 /\ [][NextCache1]_vars

\* C8: writing the stage-1 result to its cache file and reading the file back gives
\* the same map from inode to candidate blocks and the same list of extended blocks,
\* for every stage-1 result, with an empty or a non-empty extended list.
C8_Stage1CacheRoundTrip ==
  c1pc \in {"loaded", "aborted", "hung"} =>
    /\ c1pc = "loaded"
    /\ dir_inode_to_block_cache = stage1.cache
    /\ extended_blocks = stage1.extended

\* What does hold: a result with candidates for some inode above 0, none for inode 0
\* and a non-empty extended list is read back unchanged.
C8_WhenBothNonEmpty ==
  (/\ c1pc \in {"loaded", "aborted", "hung"}
   /\ stage1.extended # <<>>
   /\ stage1.cache[0] = <<>>
   /\ \E i \in 1..InodeCount : stage1.cache[i] # <<>>)
  => /\ c1pc = "loaded"
     /\ dir_inode_to_block_cache = stage1.cache
     /\ extended_blocks = stage1.extended

\* The load of a cache file written with candidates for an inode and an empty extended
\* list: the second comment loop never ends.
C8_LoadHangs ==
  /\ c1pc = "hung"
  /\ stage1.extended = <<>>
  /\ stage1.cache[0] = <<>>
  /\ \E i \in 1..InodeCount : Len(stage1.cache[i]) >= 2

(***************************************************************************)
(* The directory tree (ext3grep.cc 2299-2334, 2427-2593, 4065-4146).       *)
(* A directory block is the list of its entries; a name and a path are     *)
(* lists of characters.                                                    *)
(***************************************************************************)
\* '\''
QUOTE == -9
\* '/'
SLASH == -10
\* '.'
DOT == -11
\* Two characters that file names are made of.
LETTER_A == -12
LETTER_B == -13

\* The inode of the root directory: get_inode(2).
ROOT == 2
\* The file type of a directory entry that names a directory.
EXT3_FT_REG_FILE == 1
EXT3_FT_DIR == 2
\* init_directories sets commandline_depth to 10000 around the iteration.
commandline_depth == 10000

\* What the model keeps of an inode: its bit in the inode bitmap, whether its mode is
\* that of a directory, block()[0] and dtime().
InodeOf(allocated, directory, first_block, dtime) ==
  [allocated |-> allocated, directory |-> directory, first_block |-> first_block,
   dtime |-> dtime]

DirEntry(ino, nm, ln) ==
  [inode |-> ino, name |-> nm, file_type |-> EXT3_FT_DIR, linked |-> ln]

\* The entry of a regular file.
FileEntry(ino, nm, ln) ==
  [inode |-> ino, name |-> nm, file_type |-> EXT3_FT_REG_FILE, linked |-> ln]

\* Directory::Directory(inode_number, first_block): one DirectoryBlock, the first block.
Directory(inode_number, first_block) ==
  [inode_number |-> inode_number, blocks |-> <<first_block>>]

\* int dir_inode_to_block(uint32_t inode): -1 without candidate, else the first one.
dir_inode_to_block(ino) ==
  IF dir_inode_to_block_cache[ino] = <<>> THEN -1 ELSE dir_inode_to_block_cache[ino][1]

\* A Parent: has_entry is M_dir_entry != NULL and name the name of that entry,
\* has_inode is M_inode != NULL and dtime the dtime of that inode.
Parent(has_entry, nm, ino, has_inode) ==
  [has_entry |-> has_entry, name |-> nm, inodenr |-> ino, has_inode |-> has_inode,
   dtime |-> IF has_inode THEN inode_table[ino].dtime ELSE 0]

\* The loop of Parent::dirname(false) over the parents that have a dir entry.
RECURSIVE PrependParents(_, _, _)
PrependParents(parents, k, path) ==
  IF k = 0 \/ ~parents[k].has_entry THEN path
  ELSE PrependParents(parents, k - 1, parents[k].name \o <<SLASH>> \o path)

\* std::string Parent::dirname(false) of the last element of parents.
dirname(parents) ==
  LET n == Len(parents) IN
  IF ~parents[n].has_entry THEN <<>>
  ELSE PrependParents(parents, n - 1, parents[n].name)

\* The paths that path_exists finds in the locate database; none is listed.
LocateDatabase == {}

\* bool path_exists(path): whether the locate database lists the path.
path_exists(path) == path \in LocateDatabase

Event(ev, ino, chain) == [ev |-> ev, inode |-> ino, chain |-> chain]

\* The inodes of the directories that are being iterated, outermost first: what the
\* calls of filter_dir_entry that have not returned stored in inodes[].
Chain(st) == [k \in 1..(st.depth - st.base) |-> st.inodes[st.base + k - 1]]

TreeAbort(st) == [st EXCEPT !.ok = FALSE]

\* bool init_directories_action(dir_entry, ..., parent, ...): the state after it and
\* its return value.
init_directories_action(st, e, parents) ==
  IF e.name # <<DOT>>
  THEN [st |-> st, ret |-> e.inode \in DOMAIN st.i2d]
  ELSE
    LET first_block == dir_inode_to_block(e.inode)
        path == dirname(parents)
        fresh == path \notin DOMAIN st.ad
        ad1 == IF fresh THEN (path :> Directory(e.inode, first_block)) @@ st.ad ELSE st.ad
        dir == ad1[path]
        s1 == [st EXCEPT !.ad = ad1,
                         !.log = IF fresh THEN @
                                 ELSE Append(@, Event("two_inodes", e.inode, <<>>))]
    IN IF first_block = -1 THEN [st |-> TreeAbort(st), ret |-> TRUE]
       ELSE IF ~fresh /\ e.inode = dir.inode_number /\ first_block = dir.blocks[1]
       THEN [st |-> st, ret |-> TRUE]
       ELSE IF e.inode \notin DOMAIN s1.i2d
       THEN [st |-> [s1 EXCEPT !.i2d = (e.inode :> path) @@ @], ret |-> FALSE]
       ELSE
         LET old == s1.i2d[e.inode]
             new_path == path_exists(path)
             old_path == path_exists(old)
             s2 == [s1 EXCEPT !.log = Append(@, Event("two_paths", e.inode, <<>>))]
         IN IF e.inode = s1.ad[old].inode_number /\ path = old
            THEN [st |-> s1, ret |-> TRUE]
            ELSE IF new_path /\ old_path THEN [st |-> TreeAbort(s2), ret |-> FALSE]
            ELSE IF new_path
            THEN [st |-> [s2 EXCEPT !.i2d = [@ EXCEPT ![e.inode] = path]], ret |-> FALSE]
            ELSE [st |-> s2, ret |-> FALSE]

\* The while (!dtime) loop of filter_dir_entry (lines 2509-2517): the first non-zero
\* dtime of the parents, innermost first.  null says that the loop read the dtime of
\* a Parent whose M_inode is NULL.
RECURSIVE ParentDtime(_, _)
ParentDtime(parents, k) ==
  IF k = 0 THEN [dtime |-> 0, null |-> FALSE]
  ELSE IF ~parents[k].has_inode THEN [dtime |-> 0, null |-> TRUE]
  ELSE IF parents[k].dtime # 0 THEN [dtime |-> parents[k].dtime, null |-> FALSE]
  ELSE ParentDtime(parents, k - 1)

\* Whether the loop that breaks cycles finds the inode (lines 2484-2491).
SeenBefore(st, ino) == \E d \in 1..(st.depth - 1) : st.inodes[d] = ino

Entered(st, ino) == [st EXCEPT !.log = Append(@, Event("enter", ino, Chain(st)))]

RECURSIVE filter_dir_entry(_, _, _, _)
RECURSIVE IterateEntries(_, _, _, _, _)

\* iterate_over_directory with init_directories_action (lines 2559-2593): the linked
\* entries in the order of the block, then the deleted ones from the end of the block.
iterate_over_directory(st, blocknr, parents) ==
  LET es == device_blocks[blocknr]
      lnk == SelectSeq(es, LAMBDA e : e.linked)
      unl == Reverse(SelectSeq(es, LAMBDA e : ~e.linked))
  IN IterateEntries(IterateEntries(st, lnk, 1, FALSE, parents), unl, 1, TRUE, parents)

\* The part of filter_dir_entry that handles recursion (lines 2475-2540).
Recurse_any_dotdot(st, e, ino, existing, parents) ==
  LET new_parent == Append(parents, Parent(TRUE, e.name, e.inode, TRUE))
      s1 == [st EXCEPT !.inodes = (st.depth :> e.inode) @@ @, !.depth = @ + 1]
      blocknr == dir_inode_to_block(e.inode)
      dt == ParentDtime(parents, Len(parents))
      blk == device_blocks[blocknr]
      s2 ==
        IF existing
        THEN IF ino.first_block = 0 THEN s1
             ELSE iterate_over_directory(Entered(s1, e.inode), ino.first_block, new_parent)
        ELSE IF blocknr = -1
        THEN [s1 EXCEPT !.log = Append(@, Event("cannot_find", e.inode, <<>>))]
        ELSE IF dt.null /\ s1.null_read = "fault"
        THEN TreeAbort([s1 EXCEPT !.log = Append(@, Event("null_inode", e.inode, <<>>))])
        ELSE IF ~(dt.dtime = 0 \/ dt.dtime + 60 >= ino.dtime) THEN s1
        ELSE IF Len(blk) < 2 \/ blk[1].name # <<DOT>> \/ blk[2].name # <<DOT, DOT>>
        THEN TreeAbort(s1)
        ELSE IF blk[2].inode # 0
        THEN iterate_over_directory(Entered(s1, e.inode), blocknr, new_parent)
        ELSE [s1 EXCEPT !.log = Append(@, Event("lost", e.inode, <<>>))]
  IN IF SeenBefore(st, e.inode)
     THEN [st EXCEPT !.log = Append(@, Event("loop", e.inode, <<>>))]
     ELSE [s2 EXCEPT !.depth = @ - 1]

Recurse(st, e, ino, existing, parents) ==
  LET new_parent == Append(parents, Parent(TRUE, e.name, e.inode, TRUE))
      s1 == [st EXCEPT !.inodes = (st.depth :> e.inode) @@ @, !.depth = @ + 1]
      blocknr == dir_inode_to_block(e.inode)
      dt == ParentDtime(parents, Len(parents))
      blk == device_blocks[blocknr]
      s2 ==
        IF existing
        THEN IF ino.first_block = 0 THEN s1
             ELSE iterate_over_directory(Entered(s1, e.inode), ino.first_block, new_parent)
        ELSE IF blocknr = -1
        THEN [s1 EXCEPT !.log = Append(@, Event("cannot_find", e.inode, <<>>))]
        ELSE IF dt.null /\ s1.null_read = "fault"
        THEN TreeAbort([s1 EXCEPT !.log = Append(@, Event("null_inode", e.inode, <<>>))])
        ELSE IF ~(dt.dtime = 0 \/ dt.dtime + 60 >= ino.dtime) THEN s1
        ELSE IF Len(blk) < 2 \/ blk[1].name # <<DOT>> \/ blk[2].name # <<DOT, DOT>>
        THEN TreeAbort(s1)
        ELSE IF blk[2].inode = parents[Len(parents)].inodenr
        THEN iterate_over_directory(Entered(s1, e.inode), blocknr, new_parent)
        ELSE [s1 EXCEPT !.log = Append(@, Event("lost", e.inode, <<>>))]
  IN IF SeenBefore(st, e.inode)
     THEN [st EXCEPT !.log = Append(@, Event("loop", e.inode, <<>>))]
     ELSE [s2 EXCEPT !.depth = @ - 1]

\* filter_dir_entry with init_directories_action and no_filtering = 0 (lines
\* 2427-2543).  The command line flags other than --after have their defaults.
filter_dir_entry(st, e, deleted0, parents) ==
  LET zero_inode == e.inode = 0
      ino == IF zero_inode THEN InodeOf(FALSE, FALSE, 0, 0) ELSE inode_table[e.inode]
      allocated == ~zero_inode /\ ino.allocated
      reallocated == /\ ~zero_inode
                     /\ \/ deleted0 /\ allocated
                        \/ deleted0 /\ ino.dtime = 0
                        \/ (e.file_type = EXT3_FT_DIR) # ino.directory
      deleted == deleted0 \/ ino.dtime # 0
      filtered == IF zero_inode THEN TRUE
                  ELSE ~(/\ ~reallocated
                         /\ \/ reallocated
                            \/ ino.dtime = 0
                            \/ commandline_after <= ino.dtime)
      a == init_directories_action(st, e, parents)
  IN IF filtered THEN st
     ELSE IF a.ret \/ ~a.st.ok THEN a.st
     ELSE IF ~(e.file_type = EXT3_FT_DIR /\ a.st.depth < commandline_depth) THEN a.st
     ELSE IF e.name \in {<<DOT>>, <<DOT, DOT>>} THEN a.st
     ELSE Recurse(a.st, e, ino, ~deleted /\ allocated /\ ~reallocated, parents)

IterateEntries(st, es, k, deleted0, parents) ==
  IF k > Len(es) \/ ~st.ok THEN st
  ELSE IterateEntries(filter_dir_entry(st, es[k], deleted0, parents), es, k + 1,
                      deleted0, parents)

(***************************************************************************)
(* The devices that the tree is built from.  Inodes 3 and 4 are the        *)
(* sub-directories; inode i has the start block StartBlock(i), whose "."   *)
(* entry names i, unless the inode is a live directory with another first  *)
(* block; one more block is an extended directory block.                   *)
(***************************************************************************)
SubDirs == {3, 4}

TreeInodes == {1, ROOT} \cup SubDirs

StartBlock(i) == 10 + i

ExtendedBlock == 20

NameOf(i, quoted) ==
  IF i = 3 THEN <<LETTER_A>>
  ELSE IF quoted THEN <<LETTER_B, QUOTE, LETTER_B>> ELSE <<LETTER_B>>

\* A sub-directory inode is a live directory with one block, a directory deleted at
\* time 100 or 200, or now a regular file.
TreeInodeKinds ==
  {InodeOf(TRUE, TRUE, StartBlock(j), 0) : j \in {ROOT} \cup SubDirs}
  \cup {InodeOf(FALSE, TRUE, 0, 100), InodeOf(FALSE, TRUE, 0, 200),
        InodeOf(TRUE, FALSE, 0, 0)}

\* Whether the device has a start block for inode i: a live directory whose block[0]
\* is another block has none, as stage 2 accepts only block[0] for it.
HasStartBlock(i, kind) == kind.first_block \in {0, StartBlock(i)}

\* The devices.  Without extended block: the root lists any of the sub-directories,
\* a sub-directory at most one; depth is 0, or 1 when print_directory has run before.
\* With an extended block: the entries of that block and what the journal gives for it.
TreeWorlds(ext_present) ==
  LET E(i, ln) == DirEntry(i, NameOf(i, FALSE), ln)
      SubLists == {<<>>} \cup {<<i>> : i \in SubDirs}
      ExtendedEntries ==
        { <<>>, <<E(3, TRUE)>>, <<E(4, TRUE)>>, <<E(3, TRUE), E(4, TRUE)>>,
          <<E(3, FALSE)>>, <<E(3, FALSE), E(4, FALSE)>>, <<E(3, TRUE), E(4, FALSE)>>,
          <<E(3, TRUE), DirEntry(3, <<LETTER_A, LETTER_A>>, TRUE), E(4, TRUE)>>,
          <<FileEntry(1, <<LETTER_B>>, TRUE)>> }
  IN IF ~ext_present THEN
     { [root |-> r, dotdot |-> dd, entries |-> en, kind |-> kd, ext_present |-> FALSE,
        ext |-> <<>>, journal |-> -1, locate |-> <<>>, depth |-> d, quoted |-> q] :
         r \in SubLists \cup {<<3, 4>>, <<4, 3>>},
         dd \in [SubDirs -> {ROOT} \cup SubDirs], en \in [SubDirs -> SubLists],
         kd \in [SubDirs -> TreeInodeKinds], d \in {0, 1}, q \in BOOLEAN }
     ELSE
     { [root |-> r, dotdot |-> dd, entries |-> [i \in SubDirs |-> <<>>], kind |-> kd,
        ext_present |-> TRUE, ext |-> x, journal |-> j, locate |-> la, depth |-> 0,
        quoted |-> FALSE] :
         r \in {<<3>>, <<3, 4>>}, dd \in [SubDirs -> {ROOT} \cup SubDirs],
         kd \in [SubDirs -> TreeInodeKinds], x \in ExtendedEntries, j \in {-1, 3},
         la \in {<<>>, NameOf(3, FALSE), NameOf(4, FALSE)} }

RECURSIVE EntriesOf(_, _, _)
EntriesOf(list, k, quoted) ==
  IF k > Len(list) THEN <<>>
  ELSE <<DirEntry(list[k], NameOf(list[k], quoted), TRUE)>> \o EntriesOf(list, k + 1, quoted)

\* A directory start block: ".", ".." and the entries.
StartBlockOf(dot, dotdot, es) ==
  <<DirEntry(dot, <<DOT>>, TRUE), DirEntry(dotdot, <<DOT, DOT>>, TRUE)>> \o es

BlocksOf(w) ==
  [b \in {StartBlock(i) : i \in {ROOT} \cup SubDirs} \cup {ExtendedBlock} |->
     IF b = ExtendedBlock THEN w.ext
     ELSE IF b = StartBlock(ROOT) THEN StartBlockOf(ROOT, ROOT, EntriesOf(w.root, 1, w.quoted))
     ELSE LET i == CHOOSE i \in SubDirs : b = StartBlock(i) IN
          IF HasStartBlock(i, w.kind[i])
          THEN StartBlockOf(i, w.dotdot[i], EntriesOf(w.entries[i], 1, w.quoted))
          ELSE <<>>]

InodeTableOf(w) ==
  [i \in TreeInodes |->
     IF i = ROOT THEN InodeOf(TRUE, TRUE, StartBlock(ROOT), 0)
     ELSE IF i \in SubDirs THEN w.kind[i] ELSE InodeOf(FALSE, FALSE, 0, 0)]

\* What stage 2 leaves in dir_inode_to_block_cache for the device.
ResolvedCacheOf(w) ==
  [i \in TreeInodes |->
     IF i = ROOT \/ (i \in SubDirs /\ HasStartBlock(i, w.kind[i]))
     THEN <<StartBlock(i)>> ELSE <<>>]

\* init_directories after init_dir_inode_to_block_cache has returned.
InitTree ==
  /\ tpc = "ready"
  /\ \E ext_present \in BOOLEAN : \E w \in TreeWorlds(ext_present) :
       /\ depth = w.depth
       /\ device_blocks = BlocksOf(w)
       /\ inode_table = InodeTableOf(w)
       /\ dir_inode_to_block_cache = ResolvedCacheOf(w)
       /\ extended_blocks = IF w.ext_present THEN <<ExtendedBlock>> ELSE <<>>
       /\ locate_answer = w.locate
       /\ block_to_dir_inode_map =
            IF w.journal = -1 THEN EmptyMap ELSE (ExtendedBlock :> w.journal)
  /\ all_directories = EmptyMap
  /\ inode_to_directory = EmptyMap
  /\ tree_log = <<>>
  /\ cache_stage2 = <<>>
  /\ computed = [all_directories |-> EmptyMap, inode_to_directory |-> EmptyMap,
                 dir_inode_to_block_cache |-> EmptyMap]
  /\ s2pc = "reported"
  /\ stage1 = [cache |-> dir_inode_to_block_cache, extended |-> extended_blocks]
  /\ dir_content = EmptyMap
  /\ counters = NoCounters
  /\ warnings = <<>>
  /\ resolved_by = EmptyMap
  /\ report = NoReport
  /\ IdleWalk /\ IdleJournal /\ IdleUndel /\ IdleRestore /\ IdleCache /\ IdleMain /\ IdleDir /\ IdleScan /\ IdleReentry /\ IdleIterate /\ IdleVector

TreeState(null_read) ==
  [ad |-> all_directories, i2d |-> inode_to_directory, depth |-> depth, base |-> depth,
   inodes |-> EmptyMap, log |-> tree_log, ok |-> TRUE, null_read |-> null_read]

TreeStore(st, pc, aborted) ==
  /\ all_directories' = st.ad
  /\ inode_to_directory' = st.i2d
  /\ depth' = st.depth
  /\ tree_log' = st.log
  /\ tpc' = IF st.ok THEN pc ELSE aborted

\* The iteration from the first block of the root directory (lines 4246-4259).
BuildTree ==
  /\ tpc = "ready"
  /\ LET root_blocknr == dir_inode_to_block(ROOT) IN
       IF root_blocknr = -1
       THEN TreeStore(TreeAbort(TreeState("fault")), "tree", "tree_aborted")
       ELSE TreeStore(iterate_over_directory(TreeState("fault"), root_blocknr,
                                             <<Parent(FALSE, <<>>, ROOT, TRUE)>>),
                      "tree", "tree_aborted")
  /\ UNCHANGED <<device_blocks, locate_answer, block_to_dir_inode_map, cache_stage2, computed>>
  /\ UNCHANGED <<walkVars, journalVars, undelVars, restoreVars, mainVars, dirVars, stage2Vars, cacheVars, scanVars, reentryVars, iterVars, vectorVars>>

(***************************************************************************)
(* Extended directory blocks (ext3grep.cc 4148-4223 and 4261-4339).        *)
(***************************************************************************)
\* ++inode_to_count[inode], for a std::map<int, int>.
CountVote(m, ino) ==
  IF ino \in DOMAIN m THEN [m EXCEPT ![ino] = @ + 1] ELSE (ino :> 1) @@ m

\* bool extended_directory_action(...): v holds data.linked, data.unlinked, what was
\* printed and whether the asserts held.
extended_directory_action(v, e) ==
  LET blocknr2 == dir_inode_to_block(e.inode)
      blk == device_blocks[blocknr2]
  IN IF ~(e.file_type = EXT3_FT_DIR /\ e.inode # 0) THEN v
     ELSE IF blocknr2 = -1
     THEN [v EXCEPT !.log = Append(@, Event("cannot_find", e.inode, <<>>))]
     ELSE IF \/ Len(blk) < 2
             \/ blk[1].inode # e.inode
             \/ blk[2].name # <<DOT, DOT>>
             \/ blk[2].inode = 0
     THEN [v EXCEPT !.ok = FALSE]
     ELSE IF e.linked THEN [v EXCEPT !.linked = CountVote(@, blk[2].inode)]
     ELSE [v EXCEPT !.unlinked = CountVote(@, blk[2].inode)]

\* iterate_over_directory with extended_directory_action under no_filtering: the
\* action is called for every entry and nothing is recursed into.
RECURSIVE VoteEntries(_, _, _)
VoteEntries(v, es, k) ==
  IF k > Len(es) \/ ~v.ok THEN v
  ELSE VoteEntries(extended_directory_action(v, es[k]), es, k + 1)

ExtendedVotes(blocknr, log) ==
  LET es == device_blocks[blocknr]
      lnk == SelectSeq(es, LAMBDA e : e.linked)
      unl == Reverse(SelectSeq(es, LAMBDA e : ~e.linked))
  IN VoteEntries(VoteEntries([linked |-> EmptyMap, unlinked |-> EmptyMap, log |-> log,
                              ok |-> TRUE], lnk, 1), unl, 1)

\* std::string parent_directory(blocknr, filenames): the directory that the locate
\* database gives for the names; empty when it gives none.
parent_directory(blocknr, filenames) == locate_answer

link_extended_directory_block_to_inode_no_push(st, blocknr, ino) ==
  IF ino \notin DOMAIN st.i2d
  THEN [st EXCEPT !.log = Append(@, Event("cannot_link", ino, <<>>))]
  ELSE LET path == st.i2d[ino]
           s1 == [st EXCEPT !.log = Append(@, Event("linked", ino, <<>>))]
           dummy_parent == Parent(FALSE, <<>>, 0, FALSE)
           parent == Parent(TRUE, path, ino, TRUE)
       IN iterate_over_directory(s1, blocknr, <<dummy_parent, parent>>)

\* void link_extended_directory_block_to_inode(block_buf, blocknr, inode).
link_extended_directory_block_to_inode(st, blocknr, ino) ==
  IF ino \notin DOMAIN st.i2d
  THEN [st EXCEPT !.log = Append(@, Event("cannot_link", ino, <<>>))]
  ELSE LET path == st.i2d[ino]
           s1 == [st EXCEPT !.ad[path].blocks = Append(@, blocknr),
                            !.log = Append(@, Event("linked", ino, <<>>))]
           dummy_parent == Parent(FALSE, <<>>, 0, FALSE)
           parent == Parent(TRUE, path, ino, TRUE)
       IN iterate_over_directory(s1, blocknr, <<dummy_parent, parent>>)

\* One iteration of the loop over extended_blocks (lines 4265-4338).
ExtendedBlock_owner(st, blocknr) ==
  LET inode_from_journal == IF blocknr \in DOMAIN block_to_dir_inode_map
                            THEN block_to_dir_inode_map[blocknr] ELSE -1
      v == ExtendedVotes(blocknr, st.log)
      linked == DOMAIN v.linked # {}
      inode_to_count == IF linked THEN v.linked ELSE v.unlinked
      s1 == [st EXCEPT !.log = v.log]
      owner == CHOOSE i \in DOMAIN inode_to_count : \A j \in DOMAIN inode_to_count : i <= j
      filenames == {device_blocks[blocknr][k].name : k \in 1..Len(device_blocks[blocknr])}
      dir == parent_directory(blocknr, filenames)
      s2 == [s1 EXCEPT !.log = Append(@, Event("locate", 0, <<>>))]
      s3 == [s2 EXCEPT !.log = Append(@, Event("unknown_directory", 0, <<>>))]
      by_journal(s) ==
        IF inode_from_journal # -1
        THEN link_extended_directory_block_to_inode(s, blocknr, inode_from_journal)
        ELSE [s EXCEPT !.log = Append(@, Event("no_owner", 0, <<>>))]
  IN IF ~v.ok THEN TreeAbort(s1)
     ELSE IF DOMAIN inode_to_count # {}
     THEN IF Cardinality(DOMAIN inode_to_count) # 1
          THEN TreeAbort([s1 EXCEPT !.log = Append(@, Event("several_owners", owner, <<>>))])
          ELSE link_extended_directory_block_to_inode(s1, blocknr, owner)
     ELSE IF filenames = {} THEN by_journal(s1)
     ELSE IF dir = <<>> THEN by_journal(s2)
     ELSE IF dir \notin DOMAIN s2.ad
     THEN IF inode_from_journal # -1
          THEN link_extended_directory_block_to_inode(s3, blocknr, inode_from_journal)
          ELSE s3
     ELSE link_extended_directory_block_to_inode(s2, blocknr, s2.ad[dir].inode_number)

\* for (iter = extended_blocks.begin(); iter != extended_blocks.end(); ++iter).
RECURSIVE ExtendedBlocksLoop(_, _)
ExtendedBlocksLoop(st, k) ==
  IF k > Len(extended_blocks) \/ ~st.ok THEN st
  ELSE ExtendedBlocksLoop(ExtendedBlock_owner(st, extended_blocks[k]), k + 1)

\* The loop over the extended directory blocks.  Reading the dtime of the dummy
\* parent's NULL inode is undefined: the read faults or yields zero.
LinkExtendedBlocks ==
  /\ tpc = "tree"
  /\ \E null_read \in {"fault", "zero"} :
       TreeStore(ExtendedBlocksLoop(TreeState(null_read), 1), "linked", "link_aborted")
  /\ UNCHANGED <<device_blocks, locate_answer, block_to_dir_inode_map, cache_stage2, computed>>
  /\ UNCHANGED <<walkVars, journalVars, undelVars, restoreVars, mainVars, dirVars, stage2Vars, cacheVars, scanVars, reentryVars, iterVars, vectorVars>>

(***************************************************************************)
(* The stage-2 cache file (ext3grep.cc 4344-4430), made of the items of    *)
(* the stage-1 cache file and of the characters of the paths.              *)
(***************************************************************************)
\* The lines "INODE 'PATH' BLOCK [BLOCK ...]\n" of the directories in inodes, with
\* assert(directory.inode_number() == iter->first) after the path.
RECURSIVE WriteDirectories(_, _, _, _)
WriteDirectories(ad, i2d, inodes, k) ==
  IF k > Len(inodes) THEN [file |-> <<>>, ok |-> TRUE]
  ELSE LET ino == inodes[k]
           directory == ad[i2d[ino]]
           head == <<ino, SP, QUOTE>> \o i2d[ino] \o <<QUOTE>>
           rest == WriteDirectories(ad, i2d, inodes, k + 1)
       IN IF directory.inode_number # ino THEN [file |-> head, ok |-> FALSE]
          ELSE [file |-> head \o WriteBlocks(directory.blocks, 1) \o <<NL>> \o rest.file,
                ok |-> rest.ok]

\* The contents of the stage-2 cache file (lines 4344-4361).
WriteStage2(ad, i2d) ==
  LET w == WriteDirectories(ad, i2d, Ascending(DOMAIN i2d), 1) IN
  [file |-> CommentLine \o CommentLine \o CommentLine \o w.file, ok |-> w.ok]

\* istream::get(streambuf&, delim): the characters up to delim, which stays in the
\* stream; failbit when none was extracted, eofbit at the end of the file.
GetUntil(file, rd, delim) ==
  IF ~Good(rd) THEN [rd |-> [rd EXCEPT !.fail = TRUE], str |-> <<>>]
  ELSE LET stops == {k \in rd.pos..Len(file) : file[k] = delim}
           end == IF stops = {} THEN Len(file) + 1
                  ELSE CHOOSE k \in stops : \A m \in stops : k <= m
           str == SubSeq(file, rd.pos, end - 1)
       IN [rd |-> [rd EXCEPT !.pos = end, !.mid = FALSE, !.eof = (stops = {}),
                             !.fail = (str = <<>>)],
           str |-> str]

Stage2Abort(rd) == [rd EXCEPT !.outcome = "load_aborted"]

\* while (cache >> blocknr) of one line (lines 4409-4419).
DirectoryBlocks(file, rd) ==
  LET bl == BlockLoop(file, rd, <<>>) IN
  [rd |-> IF bl.rd.outcome = "ok" THEN bl.rd ELSE Stage2Abort(bl.rd), blocknr |-> bl.blocknr]

\* while (cache >> inode) (lines 4393-4427).
RECURSIVE DirectoryLoop(_, _)
DirectoryLoop(file, rd) ==
  LET r1 == ReadInt(file, rd)
      g1 == Get(file, r1)
      g2 == Get(file, g1)
      gp == GetUntil(file, g2, QUOTE)
      cl == IF r1.val = ROOT THEN [gp.rd EXCEPT !.fail = FALSE, !.eof = FALSE] ELSE gp.rd
      g3 == Get(file, cl)
      bl == DirectoryBlocks(file, g3)
  IN IF ~r1.ok THEN r1
     ELSE IF g1.c # SP THEN Stage2Abort(g1)
     ELSE IF g2.c # QUOTE THEN Stage2Abort(g2)
     ELSE IF g3.c # QUOTE THEN Stage2Abort(g3)
     ELSE IF gp.str \in DOMAIN rd.ad \/ r1.val \in DOMAIN rd.i2d THEN Stage2Abort(g3)
     ELSE IF bl.rd.outcome # "ok" THEN bl.rd
     ELSE IF r1.val \notin DOMAIN rd.cache THEN Stage2Abort(bl.rd)
     ELSE DirectoryLoop(file,
            [bl.rd EXCEPT !.ad = (gp.str :> [inode_number |-> r1.val,
                                             blocks |-> bl.blocknr]) @@ @,
                          !.i2d = (r1.val :> gp.str) @@ @,
                          !.cache[r1.val] = bl.blocknr])

\* The reader of the stage-2 cache file (lines 4365-4429), started with the empty maps
\* and the zeroed dir_inode_to_block_cache array of a new run.
LoadStage2(file) ==
  LET rd0 == [pos |-> 1, mid |-> FALSE, fail |-> FALSE, eof |-> FALSE, c |-> NOCHAR,
              ok |-> TRUE, val |-> 0, outcome |-> "ok",
              ad |-> EmptyMap, i2d |-> EmptyMap,
              cache |-> [i \in {0} \cup TreeInodes |-> <<>>]]
      a == CommentLoop(file, rd0)
  IN IF a.outcome = "ok" THEN DirectoryLoop(file, a) ELSE a

\* The run that built the tree writes the stage-2 cache file.
WriteStage2Cache ==
  /\ tpc = "linked"
  /\ LET w == WriteStage2(all_directories, inode_to_directory) IN
       /\ cache_stage2' = w.file
       /\ tpc' = IF w.ok THEN "written" ELSE "write_aborted"
  /\ computed' = [all_directories |-> all_directories,
                  inode_to_directory |-> inode_to_directory,
                  dir_inode_to_block_cache |-> dir_inode_to_block_cache]
  /\ UNCHANGED <<depth, device_blocks, locate_answer, block_to_dir_inode_map, all_directories,
                 inode_to_directory, tree_log>>
  /\ UNCHANGED <<walkVars, journalVars, undelVars, restoreVars, mainVars, dirVars, stage2Vars, cacheVars, scanVars, reentryVars, iterVars, vectorVars>>

\* A later run finds the stage-2 cache file and loads it instead of building the tree.
LoadStage2Cache ==
  /\ tpc = "written"
  /\ LET rd == LoadStage2(cache_stage2) IN
       /\ all_directories' = rd.ad
       /\ inode_to_directory' = rd.i2d
       /\ dir_inode_to_block_cache' = rd.cache
       /\ tpc' = IF rd.outcome = "ok" THEN "loaded" ELSE rd.outcome
  /\ tree_log' = <<>>
  /\ UNCHANGED <<depth, device_blocks, locate_answer, block_to_dir_inode_map, cache_stage2, computed>>
  /\ UNCHANGED <<s2pc, stage1, inode_table, extended_blocks, dir_content, counters,
                 warnings, resolved_by, report>>
  /\ UNCHANGED <<walkVars, journalVars, undelVars, restoreVars, mainVars, dirVars, cacheVars, scanVars, reentryVars, iterVars, vectorVars>>

NextTree == BuildTree \/ LinkExtendedBlocks \/ WriteStage2Cache \/ LoadStage2Cache



SpecTree == InitTree /\ [][NextTree]_vars

\* C7: along any chain of nested directories of the tree construction no directory
\* inode is entered a second time, cycles included.
C7_NoInodeEnteredTwice ==
  \A k \in 1..Len(tree_log) :
    tree_log[k].ev = "enter" =>
      \A m, n \in 1..Len(tree_log[k].chain) :
        m # n => tree_log[k].chain[m] # tree_log[k].chain[n]

\* What the loop that breaks cycles does establish: when depth is 1 at the start, as
\* after print_directory, inodes[1] holds the first directory entered and no inode is
\* entered twice along a chain.
C7_NoReentryFromDepthOne == depth = 1 => C7_NoInodeEnteredTwice

C7_LoopBrokenFromDepthOne ==
  /\ depth = 1
  /\ \E k \in 1..Len(tree_log) : tree_log[k].ev = "loop"

\* The votes of an extended block as the loop over the extended blocks counts them:
\* those of the linked entries when one of them voted, else those of the unlinked.
VotesOf(blocknr) ==
  LET v == ExtendedVotes(blocknr, <<>>) IN
  IF DOMAIN v.linked # {} THEN v.linked ELSE v.unlinked

HasMajority(votes, ino) ==
  ino \in DOMAIN votes /\ \A j \in DOMAIN votes \ {ino} : votes[j] < votes[ino]

Attached(blocknr, ino) ==
  /\ ino \in DOMAIN inode_to_directory
  /\ blocknr \in Range(all_directories[inode_to_directory[ino]].blocks)

\* C6: once the loop over the extended blocks has run, an extended block whose
\* sub-directory entries voted is attached to the Directory of the inode with the most
\* votes, also when the votes name more than one inode.  Stated for owners that have a
\* Directory.
C6_OwnerByMajority ==
  tpc \in {"linked", "link_aborted"} =>
    \A k \in 1..Len(extended_blocks) : \A ino \in DOMAIN inode_to_directory :
      HasMajority(VotesOf(extended_blocks[k]), ino) => Attached(extended_blocks[k], ino)

\* What the loop does establish: when all votes name one inode that has a Directory,
\* the block is attached to that Directory.
C6_WhenVotesAgree ==
  tpc \in {"linked", "link_aborted"} =>
    \A k \in 1..Len(extended_blocks) : \A ino \in DOMAIN inode_to_directory :
      DOMAIN VotesOf(extended_blocks[k]) = {ino} => Attached(extended_blocks[k], ino)

C6_AgreeingVotesAttach ==
  /\ tpc = "linked"
  /\ \E k \in 1..Len(extended_blocks) : \E ino \in DOMAIN inode_to_directory :
       /\ DOMAIN VotesOf(extended_blocks[k]) = {ino}
       /\ VotesOf(extended_blocks[k])[ino] > 1
       /\ Attached(extended_blocks[k], ino)

PathToInode(ad) == [path \in DOMAIN ad |-> ad[path].inode_number]

\* C9: a run that loads the stage-2 cache file has the same association of paths and
\* directory inodes and, for every inode, the same candidate blocks in
\* dir_inode_to_block_cache as the run that wrote the file.
C9_Stage2CacheRoundTrip ==
  tpc \in {"loaded", "load_aborted", "hung"} =>
    /\ tpc = "loaded"
    /\ PathToInode(all_directories) = PathToInode(computed.all_directories)
    /\ \A i \in TreeInodes :
         dir_inode_to_block_cache[i] = computed.dir_inode_to_block_cache[i]

\* What the file does carry: the paths and the inodes of inode_to_directory, when no
\* path holds a quote.
C9_PathsOfRegisteredInodes ==
  (tpc \in {"loaded", "load_aborted", "hung"}
     /\ \A i \in DOMAIN computed.inode_to_directory :
          \A k \in 1..Len(computed.inode_to_directory[i]) :
            computed.inode_to_directory[i][k] # QUOTE)
    => /\ tpc = "loaded"
       /\ inode_to_directory = computed.inode_to_directory

(***************************************************************************)
(* main (ext3grep.cc 941-1165): the order in which one run builds the      *)
(* journal index, the stage-1 and stage-2 results, the directory tree and  *)
(* path_to_inode_map, and the operations that use them.                    *)
(***************************************************************************)
Log(r, ev) == [r EXCEPT !.log = Append(@, ev)]

\* init_journal has no guard of its own: every call builds the index.
run_init_journal(r) ==
  Log([Log(r, "journal_begin") EXCEPT !.journal_block_bitmap = TRUE], "journal_end")

\* is_in_journal: the index is built on the first call if main did not build it.
run_is_in_journal(r) ==
  IF ~r.journal_block_bitmap THEN run_init_journal(r) ELSE r

\* init_dir_inode_to_block_cache: the scan of stage 1 (or the load of its cache
\* file), then the resolution of stage 2.
init_dir_inode_to_block_cache(r, o) ==
  IF r.dir_inode_to_block_cache THEN r
  ELSE LET r1 == Log([r EXCEPT !.dir_inode_to_block_cache = TRUE], "stage1_begin")
           r2 == IF o.stage1_cache THEN r1 ELSE run_is_in_journal(r1)
       IN Log(Log(Log(r2, "stage1_end"), "stage2_begin"), "stage2_end")

init_directories(r, o) ==
  IF r.init_directories THEN r
  ELSE LET r1 == [r EXCEPT !.init_directories = TRUE] IN
       IF ~o.stage2_cache
       THEN Log(Log(init_dir_inode_to_block_cache(r1, o), "tree_begin"), "tree_end")
       ELSE Log(Log([r1 EXCEPT !.dir_inode_to_block_cache = TRUE], "tree_begin"), "tree_end")

\* A mutant of init_files without its guard.
init_files_unguarded(r, o) ==
  Log(Log(init_directories(r, o), "files_begin"), "files_end")

init_files(r, o) ==
  IF r.init_files THEN r
  ELSE Log(Log(init_directories([r EXCEPT !.init_files = TRUE], o), "files_begin"),
           "files_end")

\* dir_inode_to_block, as print_directory and print_directory_inode reach it.
run_dir_inode_to_block(r, o) ==
  IF ~r.dir_inode_to_block_cache THEN init_directories(r, o) ELSE r

\* restore_file: init_files, then lookups with find() in path_to_inode_map and
\* all_directories, and get_undeleted_inode, which reads block_to_descriptors_map.
restore_file(r, o) == Log(init_files(r, o), "restore_file")

\* dump_names, with --restore-all for two paths.
dump_names(r, o) ==
  LET r1 == Log(init_files(r, o), "dump_names")
  IN IF o.restore_all THEN restore_file(restore_file(r1, o), o) ELSE r1

show_hardlinks(r, o) == Log(init_files(r, o), "show_hardlinks")

print_directory_inode(r, o) ==
  LET r1 == run_dir_inode_to_block(init_directories(r, o), o)
  IN IF o.dump_names THEN dump_names(r1, o) ELSE r1

InitMain ==
  /\ mpc = "init_journal"
  /\ options \in [inode : BOOLEAN, block : BOOLEAN, dump_names : BOOLEAN,
                  restore_all : BOOLEAN, restore_file : BOOLEAN,
                  show_hardlinks : BOOLEAN, stage1_cache : BOOLEAN,
                  stage2_cache : BOOLEAN]
  /\ run = NoRun
  /\ IdleWalk /\ IdleJournal /\ IdleUndel /\ IdleRestore /\ IdleStages /\ IdleDir /\ IdleScan /\ IdleReentry /\ IdleIterate /\ IdleVector

MainStep(from, to, r) ==
  /\ mpc = from
  /\ mpc' = to
  /\ run' = r
  /\ UNCHANGED options
  /\ UNCHANGED <<walkVars, journalVars, undelVars, restoreVars, stageVars, dirVars, scanVars, reentryVars, iterVars, vectorVars>>

\* Line 942.
MainInitJournal == MainStep("init_journal", "inode", run_init_journal(run))

\* Lines 945-969: --inode, for the inode of a directory.
MainInode ==
  MainStep("inode", "block",
           IF options.inode THEN print_directory_inode(run, options) ELSE run)

\* Lines 971-1125: --block, for a directory block whose listing looks up the block
\* of a deleted sub-directory (filter_dir_entry, line 2502).
MainBlock ==
  MainStep("block", "dump_names",
           IF options.block THEN run_dir_inode_to_block(run_is_in_journal(run), options)
           ELSE run)

\* Lines 1157-1158.
MainDumpNames ==
  MainStep("dump_names", "restore_file",
           IF options.restore_all \/ options.dump_names THEN dump_names(run, options)
           ELSE run)

\* Lines 1160-1161.
MainRestoreFile ==
  MainStep("restore_file", "show_hardlinks",
           IF options.restore_file THEN restore_file(run, options) ELSE run)

\* Lines 1163-1164.
MainShowHardlinks ==
  MainStep("show_hardlinks", "done",
           IF options.show_hardlinks THEN show_hardlinks(run, options) ELSE run)

NextMain ==
  \/ MainInitJournal \/ MainInode \/ MainBlock
  \/ MainDumpNames \/ MainRestoreFile \/ MainShowHardlinks

SpecMain == InitMain /\ [][NextMain]_vars

Positions(ev) == {k \in 1..Len(run.log) : run.log[k] = ev}

Builds == <<"journal", "stage1", "stage2", "tree", "files">>

Begin(k) == Positions(Builds[k] \o "_begin")
End(k) == Positions(Builds[k] \o "_end")

\* C13: every build runs at most once; the journal index is complete before the
\* stage-1 scan starts, stage 1 before stage 2 and the tree, path_to_inode_map is
\* built last; and after an operation (restore_file, dump_names, show_hardlinks)
\* has started to use the maps, no build writes them again.
C13_BuildOrder ==
  /\ \A k \in 1..Len(Builds) :
       /\ Cardinality(Begin(k)) <= 1
       /\ Cardinality(End(k)) <= 1
  /\ \A k \in 1..Len(Builds), j \in 1..Len(Builds) :
       k < j => \A e \in Begin(j) : \E b \in End(k) \cup (IF End(k) = {} THEN {0} ELSE {}) :
                                       b < e /\ (k = 1 => b # 0)
  /\ \A p \in Positions("restore_file") \cup Positions("dump_names")
               \cup Positions("show_hardlinks") :
       \A q \in (p + 1)..Len(run.log) :
         run.log[q] \in {"restore_file", "dump_names", "show_hardlinks"}

\* A run with --block, --restore-all and --show-hardlinks and no cache files: all
\* five builds ran, and the operations came after them.
C13_Witness ==
  /\ mpc = "done"
  /\ options.block /\ options.restore_all /\ options.show_hardlinks
  /\ ~options.stage1_cache /\ ~options.stage2_cache
  /\ \A k \in 1..Len(Builds) : Cardinality(End(k)) = 1
  /\ Cardinality(Positions("restore_file")) >= 2
  /\ Positions("show_hardlinks") # {}

(***************************************************************************)
(* is_directory (ext3grep.cc 373-400, 462-560) on the bytes of a block.    *)
(***************************************************************************)
\* block_size_ of the device whose directory blocks are examined: room for three
\* minimal entries.
DirBlockSize == 36
EXT3_DIR_ROUND == 3
EXT3_FT_UNKNOWN == 0
EXT3_FT_MAX == 8

EXT3_DIR_REC_LEN(name_len) == ((name_len + 8 + EXT3_DIR_ROUND) \div 4) * 4

\* The byte at position i of the buffer (0-based); a read behind the block finds
\* whatever the buffer holds there.
ByteAt(b, i) == IF i < Len(b.bytes) THEN b.bytes[i + 1] ELSE b.behind

\* ext3_dir_entry_2 at an offset: __le32 inode, __le16 rec_len, __u8 name_len,
\* __u8 file_type, char name[].
EntryAt(b, offset) ==
  [inode |-> ByteAt(b, offset) + 256 * ByteAt(b, offset + 1)
             + 65536 * ByteAt(b, offset + 2) + 16777216 * ByteAt(b, offset + 3),
   rec_len |-> ByteAt(b, offset + 4) + 256 * ByteAt(b, offset + 5),
   name_len |-> ByteAt(b, offset + 6),
   file_type |-> ByteAt(b, offset + 7),
   name |-> [c \in 0..254 |-> ByteAt(b, offset + 8 + c)]]

\* is_filename_char: fnct_unlikely is compiled out (#if 0).
is_filename_char(c) == IF c < 32 \/ c > 126 \/ c = 47 THEN "fnct_illegal" ELSE "fnct_ok"

\* A mutant of is_directory that accepts a start block whenever one is requested.
RECURSIVE is_directory_eager(_, _, _)
is_directory_eager(b, start_block, offset) ==
  LET dir_entry == EntryAt(b, offset)
      parent_dir_entry == EntryAt(b, EXT3_DIR_REC_LEN(1))
      is_start ==
        /\ offset = 0
        /\ dir_entry.name_len = 1 /\ dir_entry.name[0] = 46
        /\ dir_entry.rec_len = EXT3_DIR_REC_LEN(1)
        /\ dir_entry.file_type = EXT3_FT_DIR
        /\ parent_dir_entry.name_len = 2
        /\ parent_dir_entry.name[0] = 46 /\ parent_dir_entry.name[1] = 46
        /\ parent_dir_entry.file_type = EXT3_FT_DIR
  IN IF offset % 4 # 0 THEN "isdir_no"
     ELSE IF offset + EXT3_DIR_REC_LEN(1) > DirBlockSize THEN "isdir_no"
     ELSE IF start_block THEN (IF is_start THEN "isdir_start" ELSE "isdir_no")
     ELSE IF dir_entry.inode = 0 /\ dir_entry.name_len > 0
             /\ \E c \in 0..(dir_entry.name_len - 1) :
                  is_filename_char(dir_entry.name[c]) = "fnct_illegal"
     THEN "isdir_no"
     ELSE IF dir_entry.inode > InodeCount THEN "isdir_no"
     ELSE IF dir_entry.name_len = 0 THEN "isdir_no"
     ELSE IF \/ dir_entry.rec_len % 4 # 0
             \/ dir_entry.rec_len < EXT3_DIR_REC_LEN(dir_entry.name_len)
             \/ offset + dir_entry.rec_len > DirBlockSize
     THEN "isdir_no"
     ELSE IF /\ dir_entry.rec_len = DirBlockSize
             /\ \/ dir_entry.file_type = EXT3_FT_UNKNOWN
                \/ dir_entry.file_type >= EXT3_FT_MAX
                \/ dir_entry.name_len = 1
                \/ (dir_entry.name[0] = 95 /\ dir_entry.name[1] = 90)
     THEN "isdir_no"
     ELSE IF /\ offset + dir_entry.rec_len # DirBlockSize
             /\ is_directory_eager(b, FALSE, offset + dir_entry.rec_len) = "isdir_no"
     THEN "isdir_no"
     ELSE IF \E c \in 0..(dir_entry.name_len - 1) :
               is_filename_char(dir_entry.name[c]) # "fnct_ok"
     THEN "isdir_no"
     ELSE IF is_start THEN "isdir_start" ELSE "isdir_extended"

\* is_directory(block, blocknr, start_block, certainly_linked, offset).  blocknr and
\* certainly_linked only reach the warnings.  The "&nbsp;" exception of the last
\* loop needs a last character that is not fnct_ok and equals ';', which is fnct_ok.
RECURSIVE is_directory(_, _, _)
is_directory(b, start_block, offset) ==
  LET dir_entry == EntryAt(b, offset)
      parent_dir_entry == EntryAt(b, EXT3_DIR_REC_LEN(1))
      is_start ==
        /\ offset = 0
        /\ dir_entry.name_len = 1 /\ dir_entry.name[0] = 46
        /\ dir_entry.rec_len = EXT3_DIR_REC_LEN(1)
        /\ dir_entry.file_type = EXT3_FT_DIR
        /\ parent_dir_entry.name_len = 2
        /\ parent_dir_entry.name[0] = 46 /\ parent_dir_entry.name[1] = 46
        /\ parent_dir_entry.file_type = EXT3_FT_DIR
  IN IF offset % 4 # 0 THEN "isdir_no"
     ELSE IF offset + EXT3_DIR_REC_LEN(1) > DirBlockSize THEN "isdir_no"
     ELSE IF start_block /\ ~is_start THEN "isdir_no"
     ELSE IF dir_entry.inode = 0 /\ dir_entry.name_len > 0
             /\ \E c \in 0..(dir_entry.name_len - 1) :
                  is_filename_char(dir_entry.name[c]) = "fnct_illegal"
     THEN "isdir_no"
     ELSE IF dir_entry.inode > InodeCount THEN "isdir_no"
     ELSE IF dir_entry.name_len = 0 THEN "isdir_no"
     ELSE IF \/ dir_entry.rec_len % 4 # 0
             \/ dir_entry.rec_len < EXT3_DIR_REC_LEN(dir_entry.name_len)
             \/ offset + dir_entry.rec_len > DirBlockSize
     THEN "isdir_no"
     ELSE IF /\ dir_entry.rec_len = DirBlockSize
             /\ \/ dir_entry.file_type = EXT3_FT_UNKNOWN
                \/ dir_entry.file_type >= EXT3_FT_MAX
                \/ dir_entry.name_len = 1
                \/ (dir_entry.name[0] = 95 /\ dir_entry.name[1] = 90)
     THEN "isdir_no"
     ELSE IF /\ offset + dir_entry.rec_len # DirBlockSize
             /\ is_directory(b, FALSE, offset + dir_entry.rec_len) = "isdir_no"
     THEN "isdir_no"
     ELSE IF \E c \in 0..(dir_entry.name_len - 1) :
               is_filename_char(dir_entry.name[c]) # "fnct_ok"
     THEN "isdir_no"
     ELSE IF is_start THEN "isdir_start" ELSE "isdir_extended"

\* The twelve bytes of an entry with a name of at most four characters.
EntryBytes(ino, rec_len, name_len, file_type, name) ==
  <<ino, 0, 0, 0, rec_len, 0, name_len, file_type>> \o name

\* Blocks to start from: a directory start of two entries and one of three, an
\* extended block of two entries and one of a single entry; 46 is '.', 97 'a'.
DirTemplates ==
  { EntryBytes(2, 12, 1, 2, <<46, 0, 0, 0>>) \o EntryBytes(2, 24, 2, 2, <<46, 46, 0, 0>>)
      \o EntryBytes(1, 12, 1, 1, <<97, 0, 0, 0>>),
    EntryBytes(2, 12, 1, 2, <<46, 0, 0, 0>>) \o EntryBytes(2, 12, 2, 2, <<46, 46, 0, 0>>)
      \o EntryBytes(1, 12, 2, 1, <<97, 98, 0, 0>>),
    EntryBytes(1, 12, 2, 1, <<97, 98, 0, 0>>) \o EntryBytes(2, 24, 1, 2, <<97, 0, 0, 0>>)
      \o EntryBytes(0, 12, 1, 1, <<98, 0, 0, 0>>),
    EntryBytes(1, 36, 2, 1, <<97, 98, 0, 0>>) \o EntryBytes(0, 0, 0, 0, <<0, 0, 0, 0>>)
      \o EntryBytes(0, 0, 0, 0, <<0, 0, 0, 0>>) }

\* The values a byte of an entry is overwritten with, by its position in the entry:
\* inode, rec_len, name_len, file_type, and the first two characters of the name
\* (47 is '/', 95 '_', 90 'Z', 7 a control character).
ByteValues(pos) ==
  IF pos = 0 THEN {0, 1, 2, InodeCount + 1}
  ELSE IF pos = 1 THEN {1}
  ELSE IF pos = 4 THEN {0, 8, 10, 12, 16, 24, 36}
  ELSE IF pos = 6 THEN {0, 1, 2, 3, 5, 255}
  ELSE IF pos = 7 THEN {0, 1, 2, 8}
  ELSE IF pos = 8 THEN {46, 97, 47, 95, 7}
  ELSE IF pos = 9 THEN {0, 46, 47, 90, 98}
  ELSE {}

\* Every (position, value) pair that overwrites one byte of a block.
Overwrites ==
  {<<p, v>> \in (0..(DirBlockSize - 1)) \X (0..255) : v \in ByteValues(p % 12)}

InitDir ==
  /\ \E t \in DirTemplates, w1 \in Overwrites, w2 \in Overwrites, behind \in {0, 97} :
       dir_block = [bytes |-> [i \in 1..DirBlockSize |->
                                 IF i = w2[1] + 1 THEN w2[2]
                                 ELSE IF i = w1[1] + 1 THEN w1[2] ELSE t[i]],
                    behind |-> behind]
  /\ isdir = [start_block \in BOOLEAN |-> "none"]
  /\ IdleWalk /\ IdleJournal /\ IdleUndel /\ IdleRestore /\ IdleStages /\ IdleMain /\ IdleScan /\ IdleReentry /\ IdleIterate /\ IdleVector

\* One call of is_directory at offset 0, as the stage-1 scan (start_block = true,
\* line 3716) and main (start_block = false, line 998) make it.
IsDirectory ==
  /\ \E start_block \in BOOLEAN :
       /\ isdir[start_block] = "none"
       /\ isdir' = [isdir EXCEPT ![start_block] = is_directory(dir_block, start_block, 0)]
  /\ UNCHANGED dir_block
  /\ UNCHANGED <<walkVars, journalVars, undelVars, restoreVars, stageVars, mainVars, scanVars, reentryVars, iterVars, vectorVars>>

NextDir == IsDirectory

SpecDir == InitDir /\ [][NextDir]_vars

\* C15: a block for which is_directory with start_block = true returns Start gets
\* Start with start_block = false as well.
C15_StartEitherWay ==
  (isdir[TRUE] = "isdir_start" /\ isdir[FALSE] # "none") => isdir[FALSE] = "isdir_start"

\* A block of three entries that is a start block both ways.
C15_Witness ==
  /\ isdir[TRUE] = "isdir_start"
  /\ isdir[FALSE] = "isdir_start"
  /\ EntryAt(dir_block, EXT3_DIR_REC_LEN(1)).rec_len = EXT3_DIR_REC_LEN(2)

(***************************************************************************)
(* block_to_dir_inode_map: the second loop of init_journal (ext3grep.cc    *)
(* 3213-3221, 3285-3318).  Here journal_inode_copy gives, for the journal  *)
(* block of a tag, the inodes of the inode-table block it is a copy of.    *)
(***************************************************************************)
\* block_size_ / sizeof(Inode)
InodesPerBlock == 2

\* A mutant that keeps the inode that was stored first.
directory_inode_action_keep_first(map, blocknr, inode_number) ==
  IF blocknr \in DOMAIN map THEN map ELSE (blocknr :> inode_number) @@ map

directory_inode_action(map, blocknr, inode_number) ==
  IF blocknr \notin DOMAIN map
  THEN (blocknr :> inode_number) @@ map
  ELSE [map EXCEPT ![blocknr] = inode_number]

\* The calls of directory_inode_action for the blocks of one walk.
RECURSIVE DirectoryInodeBlocks(_, _, _, _)
DirectoryInodeBlocks(map, blocks, k, inode_number) ==
  IF k > Len(blocks) THEN map
  ELSE DirectoryInodeBlocks(directory_inode_action(map, blocks[k], inode_number),
                            blocks, k + 1, inode_number)

\* The loop over the inodes of one journal block (lines 3301-3316).
RECURSIVE InodeCopyLoop(_, _, _, _)
InodeCopyLoop(map, copy, i, inode_number) ==
  IF i >= InodesPerBlock THEN map
  ELSE LET c == copy[i + 1] IN
       IF ~c.directory
       THEN InodeCopyLoop(map, copy, i + 1, inode_number + 1)
       ELSE IF c.inode.dtime # 0 \/ c.atime = 0 \/ c.inode.block[1] = 0
            THEN InodeCopyLoop(map, copy, i + 1, inode_number + 1)
            ELSE InodeCopyLoop(
                   DirectoryInodeBlocks(
                     map,
                     iterate_over_all_blocks_of(
                       [b \in 0..(BlockCount - 1) |-> ZeroRow], c.inode, direct_bit).out,
                     1, inode_number),
                   copy, i + 1, inode_number + 1)

\* The loop over all descriptors, in the order the sort left them (lines 3288-3318);
\* block_to_inode of the inode-table block is inode 1.
RECURSIVE DirInodeLoop(_, _, _, _)
DirInodeLoop(map, ds, k, copies) ==
  IF k > Len(ds) THEN map
  ELSE IF ds[k].type # "dt_tag" \/ ds[k].blocknr # InodeTableBlock
       THEN DirInodeLoop(map, ds, k + 1, copies)
       ELSE DirInodeLoop(InodeCopyLoop(map, copies[ds[k].block], 0, 1), ds, k + 1, copies)

\* The inodes a copy of the inode-table block can hold: live directories with blocks
\* 5, 5 and 4, or 4; a directory that was never accessed; a deleted directory; a
\* regular file; a directory without first block.
DirInodeCopies ==
  LET I(blk, dtime) == MkInode(blk, 0, 0, 0, FALSE, 8, Size32(0, 0), dtime)
      five == [NoDirect EXCEPT ![1] = 5]
  IN { [directory |-> TRUE, atime |-> 1, inode |-> I(five, 0)],
       [directory |-> TRUE, atime |-> 1, inode |-> I([five EXCEPT ![2] = 4], 0)],
       [directory |-> TRUE, atime |-> 1, inode |-> I([NoDirect EXCEPT ![1] = 4], 0)],
       [directory |-> TRUE, atime |-> 0, inode |-> I(five, 0)],
       [directory |-> TRUE, atime |-> 1, inode |-> I(five, 7)],
       [directory |-> FALSE, atime |-> 1, inode |-> I(five, 0)],
       [directory |-> TRUE, atime |-> 1, inode |-> I([NoDirect EXCEPT ![2] = 5], 0)] }

\* init_journal after its first loop: one or two tags, sorted.
InitDirIndex ==
  /\ jpc = "indexed"
  /\ \E n \in 1..2 :
       \E q \in [1..n -> 1..MaxSequence], b \in [1..n -> {InodeTableBlock, OtherBlock}] :
         all_descriptors \in
           SortDescriptors([k \in 1..n |-> Tag(FirstJournalBlock + k, q[k], b[k])])
  /\ journal_inode_copy \in
       [{all_descriptors[k].block : k \in 1..Len(all_descriptors)}
          -> [1..InodesPerBlock -> DirInodeCopies]]
  /\ LET st == AssembleLoop(all_descriptors, 1, [stm |-> EmptyMap, b2d |-> EmptyMap,
                                                 bij |-> EmptyMap, ok |-> TRUE])
     IN /\ sequence_transaction_map = st.stm
        /\ block_to_descriptors_map = st.b2d
        /\ block_in_journal_to_descriptors_map = st.bij
  /\ journal_bitmaps = NoBitmaps
  /\ real_block = NoRealBlock
  /\ IdleWalk /\ IdleUndel /\ IdleRestore /\ IdleStages /\ IdleMain /\ IdleDir /\ IdleScan /\ IdleReentry /\ IdleIterate /\ IdleVector

\* The second loop of init_journal.
BuildBlockToDirInode ==
  /\ jpc = "indexed"
  /\ jpc' = "dirs_indexed"
  /\ block_to_dir_inode_map' = DirInodeLoop(EmptyMap, all_descriptors, 1, journal_inode_copy)
  /\ UNCHANGED <<all_descriptors, journal_inode_copy, sequence_transaction_map,
                 block_to_descriptors_map, block_in_journal_to_descriptors_map,
                 journal_bitmaps, real_block>>
  /\ UNCHANGED <<tpc, depth, device_blocks, locate_answer, all_directories, inode_to_directory, tree_log,
                 cache_stage2, computed>>
  /\ UNCHANGED <<walkVars, undelVars, restoreVars, mainVars, dirVars, stage2Vars, cacheVars, scanVars, reentryVars, iterVars, vectorVars>>

NextDirIndex == BuildBlockToDirInode

SpecDirIndex == InitDirIndex /\ [][NextDirIndex]_vars

\* The inode copies of the journal that reference block B and satisfy live: <<k, i>>
\* is inode i of the block that tag k copies.
Referencing(B, live(_)) ==
  {ki \in (1..Len(all_descriptors)) \X (1..InodesPerBlock) :
     LET c == journal_inode_copy[all_descriptors[ki[1]].block][ki[2]]
     IN /\ all_descriptors[ki[1]].blocknr = InodeTableBlock
        /\ live(c)
        /\ \E j \in 1..EXT3_NDIR_BLOCKS : c.inode.block[j] = B}

\* The inode numbers of the copies of S that come with the highest sequence number.
Youngest(S) ==
  {ki[2] : ki \in {x \in S : \A y \in S :
                     all_descriptors[x[1]].sequence >= all_descriptors[y[1]].sequence}}

\* C21: every block of block_to_dir_inode has the inode number of the tag with the
\* highest sequence number among the tags whose copy holds a live directory inode
\* (directory mode, dtime = 0, first block not 0) that references the block.
C21_LastWriteWins ==
  jpc = "dirs_indexed" =>
    \A B \in DOMAIN block_to_dir_inode_map :
      LET live(c) == c.directory /\ c.inode.dtime = 0 /\ c.inode.block[1] # 0
      IN block_to_dir_inode_map[B] \in Youngest(Referencing(B, live))

\* The same for the copies the loop takes for live: those with atime # 0 as well.
C21_LastAccessedWriteWins ==
  jpc = "dirs_indexed" =>
    \A B \in DOMAIN block_to_dir_inode_map :
      LET live(c) == c.directory /\ c.inode.dtime = 0 /\ c.atime # 0 /\ c.inode.block[1] # 0
      IN block_to_dir_inode_map[B] \in Youngest(Referencing(B, live))

\* Block 5 belongs to inode 1 in the older copy and to inode 2 in the younger one.
C21_Witness ==
  /\ jpc = "dirs_indexed"
  /\ Len(all_descriptors) = 2
  /\ all_descriptors[1].sequence < all_descriptors[2].sequence
  /\ LET live(c) == c.directory /\ c.inode.dtime = 0 /\ c.atime # 0 /\ c.inode.block[1] # 0
     IN /\ <<1, 1>> \in Referencing(5, live)
        /\ <<2, 1>> \notin Referencing(5, live)
        /\ <<2, 2>> \in Referencing(5, live)
  /\ block_to_dir_inode_map[5] = 2

(***************************************************************************)
(* iterate_over_journal: the scan of the journal blocks.                   *)
(*                                                                         *)
(* A journal block is a record: magic says whether it starts with          *)
(* JFS_MAGIC_NUMBER, blocktype and sequence are its header fields, and     *)
(* tags is the list of block tags the journal wrote into a descriptor      *)
(* block: a tag of 8 bytes, followed by a uuid of 16 bytes unless the tag  *)
(* has JFS_FLAG_SAME_UUID.  The uuid bytes and the bytes behind the last   *)
(* tag are zero.                                                           *)
(***************************************************************************)

JFS_DESCRIPTOR_BLOCK == 1
JFS_COMMIT_BLOCK == 2
JFS_SUPERBLOCK_V2 == 4
JFS_REVOKE_BLOCK == 5

\* sizeof(journal_header_t) and sizeof(journal_block_tag_t), in bytes.
HeaderSize == 12
TagSize == 8
UuidSize == 16

\* sizeof(journal_block_tag_t*) on an ILP32 and on an LP64 build.
PointerSizes == {4, 8}

\* journal_maxlen_ and s_first of the journal superblock.
ScanMaxlen == 5
ScanFirst == 1

BlockTag(t_blocknr, same_uuid, last_tag) ==
  [t_blocknr |-> t_blocknr, same_uuid |-> same_uuid, last_tag |-> last_tag]

ZeroTag == BlockTag(0, FALSE, FALSE)

\* The byte offset at which the k-th tag of a descriptor block is stored.
RECURSIVE WrittenOffset(_, _)
WrittenOffset(tags, k) ==
  IF k = 1 THEN HeaderSize
  ELSE WrittenOffset(tags, k - 1) + TagSize
         + (IF tags[k - 1].same_uuid THEN 0 ELSE UuidSize)

\* *ptr: the tag read at a byte offset of a descriptor block.
TagAt(block, offset) ==
  LET at == {k \in 1..Len(block.tags) : WrittenOffset(block.tags, k) = offset}
  IN IF at = {} THEN ZeroTag ELSE block.tags[CHOOSE k \in at : TRUE]

\* ptr += 16 / sizeof(journal_block_tag_t*) unless SAME_UUID; ++ptr: the
\* number of bytes the tag cursor advances.
TagStep(psize, tag) ==
  (IF tag.same_uuid THEN 0 ELSE (16 \div psize) * TagSize) + TagSize

\* The do-loop over the tags of the descriptor block at journal index d.
\* st holds jbn, the cursor ptr, the events, the wrapped sequence and whether
\* the scan returned.
RECURSIVE TagLoop(_, _, _, _, _)
TagLoop(block, psize, d, k, st) ==
  LET jbn == st.jbn + 1
  IN IF jbn >= ScanMaxlen
     THEN [st EXCEPT !.jbn = jbn, !.wrapped = block.sequence, !.returned = TRUE]
     ELSE LET tag == TagAt(block, st.ptr)
              next == [st EXCEPT
                         !.jbn = jbn,
                         !.ptr = st.ptr + TagStep(psize, tag),
                         !.events = Append(@, [kind |-> "tag", d |-> d, k |-> k,
                                               jbn |-> jbn, offset |-> st.ptr,
                                               sequence |-> block.sequence,
                                               tag |-> tag])]
          IN IF tag.last_tag THEN next
             ELSE TagLoop(block, psize, d, k + 1, next)

\* The descriptor blocks of the journals: the SAME_UUID flags of their tags.
TagFlags == {<<FALSE>>, <<TRUE>>, <<FALSE, TRUE>>, <<FALSE, FALSE>>,
             <<FALSE, TRUE, TRUE>>}

DescriptorBlock(d, flags) ==
  [magic |-> TRUE, blocktype |-> JFS_DESCRIPTOR_BLOCK, sequence |-> d,
   tags |-> [k \in 1..Len(flags) |->
               BlockTag(10 * d + k, flags[k], k = Len(flags))]]

HeaderBlock(d, blocktype) ==
  [magic |-> TRUE, blocktype |-> blocktype, sequence |-> d, tags |-> <<>>]

DataBlock == [magic |-> FALSE, blocktype |-> 0, sequence |-> 0, tags |-> <<>>]

ScanBlocks(d) ==
  {DescriptorBlock(d, flags) : flags \in TagFlags}
    \cup {HeaderBlock(d, t) : t \in {JFS_COMMIT_BLOCK, JFS_REVOKE_BLOCK,
                                     JFS_SUPERBLOCK_V2}}
    \cup {DataBlock}

InitScan ==
  /\ IdleWalk /\ IdleJournal /\ IdleUndel /\ IdleRestore /\ IdleStages /\ IdleMain /\ IdleDir /\ IdleReentry /\ IdleIterate /\ IdleVector
  /\ \E b1 \in ScanBlocks(1), b2 \in ScanBlocks(2), b3 \in ScanBlocks(3),
        b4 \in ScanBlocks(4) :
       journal_image = [d \in 0..(ScanMaxlen - 1) |->
                          IF d = 0 THEN HeaderBlock(1, JFS_SUPERBLOCK_V2)
                          ELSE <<b1, b2, b3, b4>>[d]]
  /\ pointer_size \in PointerSizes
  /\ scan_jbn = ScanFirst
  /\ scan_visits = <<>>
  /\ scan_events = <<>>
  /\ wrapped_journal_sequence = 0
  /\ scan_pc = "scanning"

\* One round of the while loop of iterate_over_journal.
ScanBlock ==
  /\ scan_pc = "scanning"
  /\ scan_jbn < ScanMaxlen
  /\ LET block == journal_image[scan_jbn]
         event == [kind |-> "header", d |-> scan_jbn, k |-> 0, jbn |-> scan_jbn,
                   offset |-> 0, sequence |-> block.sequence, tag |-> ZeroTag]
         st == TagLoop(block, pointer_size, scan_jbn, 1,
                       [jbn |-> scan_jbn, ptr |-> HeaderSize,
                        events |-> scan_events, wrapped |-> wrapped_journal_sequence,
                        returned |-> FALSE])
     IN /\ scan_visits' = Append(scan_visits, scan_jbn)
        /\ IF ~block.magic
           THEN /\ scan_jbn' = scan_jbn + 1
                /\ UNCHANGED <<scan_events, wrapped_journal_sequence, scan_pc>>
           ELSE IF block.blocktype = JFS_DESCRIPTOR_BLOCK
           THEN /\ scan_events' = st.events
                /\ wrapped_journal_sequence' = st.wrapped
                /\ scan_jbn' = IF st.returned THEN st.jbn ELSE st.jbn + 1
                /\ scan_pc' = IF st.returned THEN "done" ELSE scan_pc
           ELSE IF block.blocktype \in {JFS_COMMIT_BLOCK, JFS_REVOKE_BLOCK}
           THEN /\ scan_events' = Append(scan_events, event)
                /\ scan_jbn' = scan_jbn + 1
                /\ UNCHANGED <<wrapped_journal_sequence, scan_pc>>
           ELSE /\ scan_pc' = "done"
                /\ UNCHANGED <<scan_jbn, scan_events, wrapped_journal_sequence>>
  /\ UNCHANGED <<journal_image, pointer_size>>
  /\ UNCHANGED <<walkVars, journalVars, undelVars, restoreVars, stageVars, mainVars, dirVars, reentryVars, iterVars, vectorVars>>

\* The while condition fails: the scan is over.
ScanEnd ==
  /\ scan_pc = "scanning"
  /\ scan_jbn >= ScanMaxlen
  /\ scan_pc' = "done"
  /\ UNCHANGED <<journal_image, pointer_size, scan_jbn, scan_visits, scan_events,
                 wrapped_journal_sequence>>
  /\ UNCHANGED <<walkVars, journalVars, undelVars, restoreVars, stageVars, mainVars, dirVars, reentryVars, iterVars, vectorVars>>

NextScan == ScanBlock \/ ScanEnd

SpecScan == InitScan /\ [][NextScan]_vars

\* The calls of action_tag of the scan.
TagEvents == {e \in {scan_events[i] : i \in 1..Len(scan_events)} : e.kind = "tag"}

\* What C23 says of a scan, for the tag steps that are given.
TagBinding(step(_)) ==
  /\ \A e \in TagEvents :
       /\ e.jbn = e.d + e.k
       /\ e.jbn < ScanMaxlen
       /\ e.k > 1 =>
            \E f \in TagEvents :
              /\ f.d = e.d
              /\ f.k = e.k - 1
              /\ e.offset - f.offset = step(f.tag)
  /\ \A i \in 1..Len(scan_visits) : scan_visits[i] < ScanMaxlen
  /\ \A i \in 1..Len(scan_visits) : \A j \in 1..Len(scan_visits) :
       i < j => scan_visits[i] < scan_visits[j]
  /\ \A e \in TagEvents : \A i \in 1..Len(scan_visits) :
       scan_visits[i] # e.jbn
  /\ \A e \in TagEvents :
       (e.tag.last_tag /\ scan_visits[Len(scan_visits)] = e.d)
         => scan_jbn = e.jbn + 1
  /\ wrapped_journal_sequence # 0 =>
       /\ scan_pc = "done"
       /\ scan_jbn = ScanMaxlen
       /\ wrapped_journal_sequence
            = journal_image[scan_visits[Len(scan_visits)]].sequence
       /\ journal_image[scan_visits[Len(scan_visits)]].blocktype
            = JFS_DESCRIPTOR_BLOCK

FormatStep(tag) == IF tag.same_uuid THEN 8 ELSE 24

\* C23: the k-th tag of the descriptor block at journal index d is bound to
\* the journal block at index d + k, the tag cursor advances by 8 bytes after
\* a tag with SAME_UUID and by 24 bytes otherwise, the scan resumes at the
\* index after the last tagged block, and when d + k reaches journal_maxlen
\* the scan sets wrapped_journal_sequence to the descriptor's sequence and
\* stops, producing no tag for that index and reading no index at or past
\* journal_maxlen.
C23_TagBinding == TagBinding(FormatStep)

\* The same on a build whose pointers are 8 bytes wide.
C23_TagBindingOnLP64 == pointer_size = 8 => TagBinding(FormatStep)

(***************************************************************************)
(* The owner of an extended block without votes (ext3grep.cc 4285-4338).   *)
(***************************************************************************)

\* No sub-directory entry of the block voted, and no assert of the count failed.
NoVote(blocknr) ==
  /\ ExtendedVotes(blocknr, <<>>).ok
  /\ DOMAIN VotesOf(blocknr) = {}

FileNames(blocknr) ==
  {device_blocks[blocknr][k].name : k \in 1..Len(device_blocks[blocknr])}

\* The step printed the message.
LoggedAfter(ev) ==
  \E k \in (Len(tree_log) + 1)..Len(tree_log') : tree_log'[k].ev = ev

\* After the step the block is a block of the Directory that inode ino had before it.
AttachedAfter(blocknr, ino) ==
  /\ ino \in DOMAIN inode_to_directory
  /\ blocknr \in Range(all_directories'[inode_to_directory[ino]].blocks)

\* After the step the block belongs to the Directory of no inode but ino.
AttachedOnlyTo(blocknr, ino) ==
  \A path \in DOMAIN all_directories' :
    blocknr \in Range(all_directories'[path].blocks)
      => all_directories'[path].inode_number = ino

\* The locate collaborator names a directory that all_directories holds.
LocateOwner(blocknr) ==
  /\ FileNames(blocknr) # {}
  /\ locate_answer # <<>>
  /\ locate_answer \in DOMAIN all_directories

Dropped(blocknr) ==
  /\ AttachedOnlyTo(blocknr, -1)
  /\ LoggedAfter("no_owner") \/ LoggedAfter("unknown_directory")

TreeEntries ==
  {[inode |-> tree_log[k].inode,
    parent |-> IF Len(tree_log[k].chain) > 1
               THEN tree_log[k].chain[Len(tree_log[k].chain) - 1] ELSE ROOT] :
     k \in {j \in 1..Len(tree_log) : tree_log[j].ev = "enter"}}

\* !deleted && allocated && !reallocated of a linked entry that is not filtered.
LiveDirectory(i) ==
  /\ inode_table[i].allocated
  /\ inode_table[i].dtime = 0
  /\ inode_table[i].directory

\* The block that the recursion enters for the inode.
EnteredBlock(i) ==
  IF LiveDirectory(i) THEN inode_table[i].first_block ELSE dir_inode_to_block(i)

\* The inode of the ".." entry of a directory start block.
DotDotOf(blocknr) == device_blocks[blocknr][2].inode

\* C25: a sub-directory entry is recursed into only if the ".." entry of the
\* child's first directory block names the parent's inode, whether the child
\* directory is live or deleted.
C25_DotDotNamesParent ==
  tpc \in {"tree", "tree_aborted"} =>
    \A en \in TreeEntries : DotDotOf(EnteredBlock(en.inode)) = en.parent

\* C25 for the children that are not live: a sub-directory entry whose inode is
\* deleted or not allocated is recursed into only if the ".." entry of the
\* child's first directory block names the parent's inode.
C25_DotDotNamesParentOfDeleted ==
  tpc \in {"tree", "tree_aborted"} =>
    \A en \in TreeEntries :
      ~LiveDirectory(en.inode) => DotDotOf(EnteredBlock(en.inode)) = en.parent

C25_DeletedEnteredAndLost ==
  /\ tpc = "tree"
  /\ \E en \in TreeEntries :
       /\ ~LiveDirectory(en.inode)
       /\ en.parent # ROOT
       /\ DotDotOf(EnteredBlock(en.inode)) = en.parent
  /\ \E k \in 1..Len(tree_log) : tree_log[k].ev = "lost"

(***************************************************************************)
(* What an accepted directory block looks like (is_directory, 462-560).    *)
(***************************************************************************)

RoundUp(n, m) == ((n + m - 1) \div m) * m

\* Following rec_len from the offset visits well-formed entries only and ends
\* exactly at the end of the block.
RECURSIVE WellFormedChain(_, _)
WellFormedChain(b, offset) ==
  \/ offset = DirBlockSize
  \/ /\ offset < DirBlockSize
     /\ offset % 4 = 0
     /\ LET e == EntryAt(b, offset)
        IN /\ e.name_len >= 1
           /\ e.rec_len % 4 = 0
           /\ e.rec_len >= RoundUp(8 + e.name_len, 4)
           /\ e.inode <= InodeCount
           /\ \A c \in 0..(e.name_len - 1) :
                e.name[c] >= 32 /\ e.name[c] <= 126 /\ e.name[c] # 47
           /\ WellFormedChain(b, offset + e.rec_len)

\* C26: when is_directory returns Start or Extended for a block, following
\* rec_len from offset 0 visits entries that each have a 4-byte aligned offset,
\* name_len >= 1, a rec_len that is a multiple of 4 and at least
\* round_up(8 + name_len, 4), inode <= inode_count and a name of bytes 32..126
\* other than '/', and the chain ends exactly at block_size; a first entry with
\* name_len 0 makes the result No.
C26_AcceptedBlockIsWellFormed ==
  \A start_block \in BOOLEAN :
    /\ isdir[start_block] \in {"isdir_start", "isdir_extended"}
         => WellFormedChain(dir_block, 0)
    /\ (isdir[start_block] # "none" /\ EntryAt(dir_block, 0).name_len = 0)
         => isdir[start_block] = "isdir_no"

\* An extended block of three entries was accepted.
C26_Witness ==
  /\ isdir[FALSE] = "isdir_extended"
  /\ EntryAt(dir_block, 0).rec_len = 12
  /\ EntryAt(dir_block, 12).rec_len = 12
  /\ EntryAt(dir_block, 24).rec_len = 12
  /\ EntryAt(dir_block, 24).inode = 0

(***************************************************************************)
(* The static block buffers of the indirect-block walker (ext3grep.cc      *)
(* 618-715) under the recursion of filter_dir_entry (2494-2497) through    *)
(* iterate_over_existing_directory_action (2551-2557).                     *)
(*                                                                         *)
(* A directory inode has the twelve direct pointers (level 0) and may have *)
(* a single, a double and a triple indirect block (levels 1, 2, 3).        *)
(* sub[L] lists the live sub-directories whose entries lie in the          *)
(* directory blocks reached at level L.  While the callback runs for a     *)
(* block reached at level L, the walkers of the levels 1..L are active.    *)
(***************************************************************************)
Levels == 1..3

NestDirs == 1..3

\* Where a sub-directory is listed: nowhere, or in a block of level L of a parent.
Places(i) ==
  {[parent |-> 0, level |-> 0]}
    \cup {[parent |-> p, level |-> L] : p \in 1..(i - 1), L \in 0..3}

DirTreeOf(place, ptr) ==
  [i \in NestDirs |->
     [ptr |-> ptr[i],
      sub |-> [L \in 0..3 |->
                 Ascending({c \in NestDirs \ {1} :
                              place[c].parent = i /\ place[c].level = L})]]]

InitReentry ==
  /\ IdleWalk /\ IdleJournal /\ IdleUndel /\ IdleRestore /\ IdleStages /\ IdleMain /\ IdleDir /\ IdleScan /\ IdleIterate /\ IdleVector
  /\ \E p2 \in Places(2), p3 \in Places(3), ptr \in [NestDirs -> [Levels -> BOOLEAN]] :
       LET place == [c \in NestDirs \ {1} |-> IF c = 2 THEN p2 ELSE p3] IN
       /\ \A c \in NestDirs \ {1} :
            (place[c].parent # 0 /\ place[c].level # 0) => ptr[place[c].parent][place[c].level]
       /\ dir_tree = DirTreeOf(place, ptr)
  /\ call_stack = <<[inode |-> 1, level |-> 0, k |-> 1]>>
  /\ using_static_buffer = [L \in Levels |-> FALSE]
  /\ nest_pc = "running"

TopFrame == call_stack[Len(call_stack)]

\* The walkers of the frame's level return: using_static_buffer = false.
BuffersLeft ==
  [L \in Levels |-> IF L <= TopFrame.level THEN FALSE ELSE using_static_buffer[L]]

\* The levels above the frame's level whose pointer of the inode is not zero.
LevelsAhead ==
  {L \in Levels : L > TopFrame.level /\ dir_tree[TopFrame.inode].ptr[L]}

NextLevel == CHOOSE L \in LevelsAhead : \A M \in LevelsAhead : L <= M

\* filter_dir_entry meets the entry of a live sub-directory in a block that the
\* callback was handed, and calls iterate_over_all_blocks_of for its inode.
Descend ==
  /\ nest_pc = "running"
  /\ TopFrame.k <= Len(dir_tree[TopFrame.inode].sub[TopFrame.level])
  /\ call_stack' =
       Append([call_stack EXCEPT ![Len(call_stack)].k = @ + 1],
              [inode |-> dir_tree[TopFrame.inode].sub[TopFrame.level][TopFrame.k],
               level |-> 0, k |-> 1])
  /\ UNCHANGED <<dir_tree, using_static_buffer, nest_pc>>
  /\ UNCHANGED <<walkVars, journalVars, undelVars, restoreVars, stageVars, mainVars, dirVars, scanVars, iterVars, vectorVars>>

\* iterate_over_all_blocks_of goes on to the next indirect block of the inode: the
\* walkers of the levels NextLevel..1 are entered, each past its assert.
EnterIndirect ==
  /\ nest_pc = "running"
  /\ TopFrame.k > Len(dir_tree[TopFrame.inode].sub[TopFrame.level])
  /\ LevelsAhead # {}
  /\ \A L \in 1..NextLevel : ~BuffersLeft[L]
  /\ using_static_buffer' = [L \in Levels |-> L <= NextLevel \/ BuffersLeft[L]]
  /\ call_stack' = [call_stack EXCEPT ![Len(call_stack)].level = NextLevel,
                                      ![Len(call_stack)].k = 1]
  /\ UNCHANGED <<dir_tree, nest_pc>>
  /\ UNCHANGED <<walkVars, journalVars, undelVars, restoreVars, stageVars, mainVars, dirVars, scanVars, iterVars, vectorVars>>

\* assert(!using_static_buffer) of a walker fails.
GuardFails ==
  /\ nest_pc = "running"
  /\ TopFrame.k > Len(dir_tree[TopFrame.inode].sub[TopFrame.level])
  /\ LevelsAhead # {}
  /\ \E L \in 1..NextLevel : BuffersLeft[L]
  /\ nest_pc' = "assert_failed"
  /\ UNCHANGED <<dir_tree, call_stack, using_static_buffer>>
  /\ UNCHANGED <<walkVars, journalVars, undelVars, restoreVars, stageVars, mainVars, dirVars, scanVars, iterVars, vectorVars>>

\* iterate_over_all_blocks_of returns.
ReturnFromWalk ==
  /\ nest_pc = "running"
  /\ TopFrame.k > Len(dir_tree[TopFrame.inode].sub[TopFrame.level])
  /\ LevelsAhead = {}
  /\ using_static_buffer' = BuffersLeft
  /\ call_stack' = SubSeq(call_stack, 1, Len(call_stack) - 1)
  /\ nest_pc' = IF Len(call_stack) = 1 THEN "done" ELSE nest_pc
  /\ UNCHANGED dir_tree
  /\ UNCHANGED <<walkVars, journalVars, undelVars, restoreVars, stageVars, mainVars, dirVars, scanVars, iterVars, vectorVars>>

NextReentry == Descend \/ EnterIndirect \/ GuardFails \/ ReturnFromWalk

SpecReentry == InitReentry /\ [][NextReentry]_vars

\* C27: no walker of a level is entered while an earlier activation of it still
\* uses its static buffer, so no using_static_buffer assert fails, also when
\* the traversal of live directories calls iterate_over_all_blocks_of from a
\* callback that the walker invoked for a parent with indirect blocks.
C27_GuardsNeverFail == nest_pc # "assert_failed"

\* The same for directories none of which lists a sub-directory in a block
\* that is reached through an indirect block.
C27_GuardsHoldBelowDirectBlocks ==
  (\A i \in NestDirs : \A L \in Levels : dir_tree[i].sub[L] = <<>>)
    => nest_pc # "assert_failed"

(***************************************************************************)
(* iterate_over_directory (ext3grep.cc 2559-2593) on the bytes of a block. *)
(* The blocks of an existing directory are handed to it as they are read   *)
(* (iterate_over_existing_directory_action, 2551-2557).  What the calls of *)
(* filter_dir_entry do with an entry is left out.                          *)
(***************************************************************************)
EXT3_DIR_PAD == 4

\* dir_entry->rec_len of the entry at an offset.
RecLenAt(b, offset) == ByteAt(b, offset + 4) + 256 * ByteAt(b, offset + 5)

\* The block that is handed over: a template with one byte overwritten.
InitIterate ==
  /\ \E t \in DirTemplates, w \in Overwrites, behind \in {0, 97} :
       dir_block = [bytes |-> [i \in 1..DirBlockSize |->
                                 IF i = w[1] + 1 THEN w[2] ELSE t[i]],
                    behind |-> behind]
  /\ isdir = [start_block \in BOOLEAN |-> "none"]
  /\ iod_pc = "live"
  /\ iod_offset = 0
  /\ iod_map = {}
  /\ iod_scanned = <<>>
  /\ iod_calls = 0
  /\ IdleWalk /\ IdleJournal /\ IdleUndel /\ IdleRestore /\ IdleStages /\ IdleMain /\ IdleScan /\ IdleReentry /\ IdleVector

\* One round of while (offset < block_size_).
LiveEntry ==
  /\ iod_pc = "live"
  /\ iod_offset < DirBlockSize
  /\ iod_map' = iod_map \cup {iod_offset \div EXT3_DIR_PAD}
  /\ iod_offset' = iod_offset + RecLenAt(dir_block, iod_offset)
  /\ iod_calls' = 1 - iod_calls
  /\ UNCHANGED <<iod_pc, iod_scanned>>
  /\ UNCHANGED <<walkVars, journalVars, undelVars, restoreVars, stageVars, mainVars, dirVars, scanVars, reentryVars, vectorVars>>

\* The chain is over: offset = block_size_ - EXT3_DIR_REC_LEN(1).
LiveEnd ==
  /\ iod_pc = "live"
  /\ iod_offset >= DirBlockSize
  /\ iod_pc' = "deleted"
  /\ iod_offset' = DirBlockSize - EXT3_DIR_REC_LEN(1)
  /\ UNCHANGED <<iod_map, iod_scanned, iod_calls>>
  /\ UNCHANGED <<walkVars, journalVars, undelVars, restoreVars, stageVars, mainVars, dirVars, scanVars, reentryVars, vectorVars>>

\* One round of while (offset > 0) of the search for deleted entries.
DeletedEntry ==
  /\ iod_pc = "deleted"
  /\ iod_offset > 0
  /\ iod_scanned' =
       Append(iod_scanned,
              [offset |-> iod_offset,
               entry |-> /\ (iod_offset \div EXT3_DIR_PAD) \notin iod_map
                         /\ is_directory(dir_block, FALSE, iod_offset) # "isdir_no"])
  /\ iod_offset' = iod_offset - EXT3_DIR_PAD
  /\ UNCHANGED <<iod_pc, iod_map, iod_calls>>
  /\ UNCHANGED <<walkVars, journalVars, undelVars, restoreVars, stageVars, mainVars, dirVars, scanVars, reentryVars, vectorVars>>

DeletedEnd ==
  /\ iod_pc = "deleted"
  /\ iod_offset <= 0
  /\ iod_pc' = "done"
  /\ UNCHANGED <<iod_offset, iod_map, iod_scanned, iod_calls>>
  /\ UNCHANGED <<walkVars, journalVars, undelVars, restoreVars, stageVars, mainVars, dirVars, scanVars, reentryVars, vectorVars>>

NextIterate == LiveEntry \/ LiveEnd \/ DeletedEntry \/ DeletedEnd

\* The function runs on: a round of a loop is taken whenever one is due.
SpecIterate == InitIterate /\ [][NextIterate]_vars /\ WF_vars(NextIterate)

\* C28: iterate_over_directory terminates on every block it is given, blocks
\* of live directories that is_directory never validated included.
C28_Terminates == <>(iod_pc = "done")

\* The scan for deleted entries looks at each 4-byte offset at most once.
C28_ScanVisitsOnce ==
  \A m, n \in 1..Len(iod_scanned) :
    m # n => iod_scanned[m].offset # iod_scanned[n].offset

\* The function does return for the blocks without an entry of rec_len 0 in the
\* chain from offset 0.
RECURSIVE ChainAdvances(_, _)
ChainAdvances(b, offset) ==
  \/ offset >= DirBlockSize
  \/ RecLenAt(b, offset) # 0 /\ ChainAdvances(b, offset + RecLenAt(b, offset))

C28_TerminatesOnAdvancingChain ==
  ChainAdvances(dir_block, 0) => <>(iod_pc = "done")

(***************************************************************************)
(* union blocknr_vector_type (ext3grep.cc 3590-3675).                      *)
(*                                                                         *)
(* A uint32_t is the record of its bit 31 (hi) and its low 31 bits (lo); a *)
(* size_t has ext for the bits above bit 31, which a 32-bit build does not *)
(* have.  The union is the record of the word blocknr and of the array     *)
(* behind blocknr_vector without its element 0, the size: vec is <<>>      *)
(* unless the union holds a pointer, and the word is zero when it does.    *)
(***************************************************************************)
Bit30 == 1073741824

MaxVectorSize == 3

U32(hi, lo) == [hi |-> hi, lo |-> lo]

SizeT(ext, w) == [ext |-> ext, hi |-> w.hi, lo |-> w.lo]

ZeroWord == SizeT(0, U32(0, 0))

\* (w << 1) | 1 in 32 bits.
ShiftLeftOr1(w) == U32(w.lo \div Bit30, (w.lo % Bit30) * 2 + 1)

\* (uint32_t)(blocknr >> 1).
ShiftRight(word) == U32(word.ext, word.hi * Bit30 + word.lo \div 2)

\* Whether (last_block << 1) is defined for the int last_block.
ShiftDefined(w) == w.hi = 0 /\ w.lo < Bit30

empty(v) == v.vec = <<>> /\ v.word = ZeroWord

is_vector(v) == v.vec # <<>>

size(v) == IF is_vector(v) THEN Len(v.vec) ELSE 1

first_entry(v) == IF is_vector(v) THEN v.vec[1] ELSE ShiftRight(v.word)

\* operator[](index), for 0 <= index < size().
at(v, index) == IF index = 0 THEN first_entry(v) ELSE v.vec[index + 1]

Inline(ext, bnr) == [word |-> SizeT(ext, ShiftLeftOr1(bnr)), vec |-> <<>>]

Heap(vec) == [word |-> ZeroWord, vec |-> vec]

push_back(v, bnr) ==
  IF empty(v) THEN Inline(0, bnr)
  ELSE IF is_vector(v) THEN Heap(Append(v.vec, bnr))
  ELSE Heap(<<ShiftRight(v.word), bnr>>)

\* Whether the asserts of remove hold.
remove_ok(v, blknr) ==
  /\ ~empty(v)
  /\ is_vector(v)
  /\ \E j \in 1..Len(v.vec) : v.vec[j] = blknr

\* remove(blknr); ext says what the conversion of (last_block << 1) | 1 to size_t
\* leaves above bit 31.
remove(v, blknr, ext) ==
  LET found == CHOOSE j \in 1..Len(v.vec) :
                 v.vec[j] = blknr /\ \A i \in 1..(j - 1) : v.vec[i] # blknr
      moved == [v.vec EXCEPT ![found] = v.vec[Len(v.vec)]]
      rest == SubSeq(moved, 1, Len(v.vec) - 1)
  IN IF Len(rest) = 1 THEN Inline(ext, rest[1]) ELSE Heap(rest)

\* What the conversion can leave above bit 31: zero when the shift is defined
\* or size_t has 32 bits, the sign of the int when size_t has 64 bits.
Extensions(v, blknr) ==
  LET found == CHOOSE j \in 1..Len(v.vec) :
                 v.vec[j] = blknr /\ \A i \in 1..(j - 1) : v.vec[i] # blknr
      moved == [v.vec EXCEPT ![found] = v.vec[Len(v.vec)]]
  IN IF Len(v.vec) = 2 /\ ~ShiftDefined(moved[1])
     THEN {0, ShiftLeftOr1(moved[1]).hi} ELSE {0}

erase(v) == [word |-> ZeroWord, vec |-> <<>>]

\* operator=(std::vector<uint32_t> const& vec).
assign(v, vec) ==
  IF Len(vec) = 0 THEN erase(v)
  ELSE IF Len(vec) = 1 THEN Inline(0, vec[1])
  ELSE Heap(vec)

\* The block numbers that are stored: 1, 2, 2^30, 2^31 and 2^31 + 1.
BlockNumbers == {U32(0, 1), U32(0, 2), U32(0, Bit30), U32(1, 0), U32(1, 1)}

NoneInserted == [b \in BlockNumbers |-> 0]

\* How often each block number occurs in a sequence.
Occurrences(seq) ==
  [b \in BlockNumbers |-> Cardinality({k \in 1..Len(seq) : seq[k] = b})]

InitVector ==
  /\ blockvec = erase(ZeroWord)
  /\ inserted = NoneInserted
  /\ vpc = "running"
  /\ IdleWalk /\ IdleJournal /\ IdleUndel /\ IdleRestore /\ IdleStages /\ IdleMain /\ IdleDir /\ IdleScan /\ IdleReentry /\ IdleIterate

PushBack ==
  /\ vpc = "running"
  /\ empty(blockvec) \/ size(blockvec) < MaxVectorSize
  /\ \E bnr \in BlockNumbers :
       /\ inserted[bnr] < MaxVectorSize
       /\ blockvec' = push_back(blockvec, bnr)
       /\ inserted' = [inserted EXCEPT ![bnr] = @ + 1]
  /\ UNCHANGED vpc
  /\ UNCHANGED <<walkVars, journalVars, undelVars, restoreVars, stageVars, mainVars, dirVars, scanVars, reentryVars, iterVars>>

Remove ==
  /\ vpc = "running"
  /\ \E blknr \in BlockNumbers :
       IF remove_ok(blockvec, blknr)
       THEN /\ \E ext \in Extensions(blockvec, blknr) :
                 blockvec' = remove(blockvec, blknr, ext)
            /\ inserted' = [inserted EXCEPT ![blknr] = IF @ > 0 THEN @ - 1 ELSE 0]
            /\ UNCHANGED vpc
       ELSE /\ vpc' = "assert_failed"
            /\ UNCHANGED <<blockvec, inserted>>
  /\ UNCHANGED <<walkVars, journalVars, undelVars, restoreVars, stageVars, mainVars, dirVars, scanVars, reentryVars, iterVars>>

\* erase() asks is_vector(), whose BVASSERT(!empty()) fails on an empty value.
Erase ==
  /\ vpc = "running"
  /\ IF empty(blockvec)
     THEN /\ vpc' = "assert_failed"
          /\ UNCHANGED <<blockvec, inserted>>
     ELSE /\ blockvec' = erase(blockvec)
          /\ inserted' = NoneInserted
          /\ UNCHANGED vpc
  /\ UNCHANGED <<walkVars, journalVars, undelVars, restoreVars, stageVars, mainVars, dirVars, scanVars, reentryVars, iterVars>>

Assign ==
  /\ vpc = "running"
  /\ \E n \in 0..2 : \E vec \in [1..n -> BlockNumbers] :
       /\ blockvec' = assign(blockvec, vec)
       /\ inserted' = Occurrences(vec)
  /\ UNCHANGED vpc
  /\ UNCHANGED <<walkVars, journalVars, undelVars, restoreVars, stageVars, mainVars, dirVars, scanVars, reentryVars, iterVars>>

NextVector == PushBack \/ Remove \/ Erase \/ Assign

SpecVector == InitVector /\ [][NextVector]_vars

\* What size() and operator[] give.
Contents(v) == IF empty(v) THEN <<>> ELSE [i \in 1..size(v) |-> at(v, i - 1)]

\* C29: the value is empty, a single block encoded inline, or a heap vector
\* of at least two blocks; size() and operator[] give exactly the blocks
\* inserted and not removed; a block number read back from the inline
\* encoding is the one stored, for every 32-bit block number.
C29_VectorHoldsInserted ==
  vpc = "running" =>
    /\ \/ empty(blockvec)
       \/ ~is_vector(blockvec) /\ blockvec.word.lo % 2 = 1
       \/ is_vector(blockvec) /\ Len(blockvec.vec) >= 2
    /\ \A k \in 1..Len(Contents(blockvec)) : Contents(blockvec)[k] \in BlockNumbers
    /\ Occurrences(Contents(blockvec)) = inserted

\* The same for block numbers below 2^30.
C29_HoldsBelow2To30 ==
  (vpc = "running" /\ \A b \in BlockNumbers : inserted[b] > 0 => ShiftDefined(b))
    => /\ \A k \in 1..Len(Contents(blockvec)) : Contents(blockvec)[k] \in BlockNumbers
       /\ Occurrences(Contents(blockvec)) = inserted

(***************************************************************************)
(* The resolution loop of stage 2 (ext3grep.cc 3877-4028) and its asserts. *)
(***************************************************************************)
\* Every inode with a candidate of stage 1 has kept some of its candidates.
KeptCandidates ==
  \A i \in 1..InodeCount :
    stage1.cache[i] # <<>> =>
      /\ dir_inode_to_block_cache[i] # <<>>
      /\ Range(dir_inode_to_block_cache[i]) \subseteq Range(stage1.cache[i])

\* An inode that enters the resolution loop with a journal block among its leading
\* candidates that no descriptor tag names.
UntaggedCandidate ==
  \E i \in 1..InodeCount :
    LET bv == dir_inode_to_block_cache[i] IN
      /\ Len(bv) >= 2
      /\ \E k \in 1..Len(bv) :
           /\ \A j \in 1..k : is_journal(bv[j])
           /\ bv[k] \notin DOMAIN block_in_journal_to_descriptors_map

\* C30: the resolution loop fails none of its asserts (a removal finds its block
\* in a set of at least two, an inspected journal block has an entry in the
\* journal-block-to-descriptor map), and it leaves every inode that had a
\* candidate of stage 1 with a non-empty subset of its candidates.
C30_ResolutionAssertsHold ==
  [][s2pc = "live" => (s2pc' = "resolved" /\ KeptCandidates')]_vars

\* The resolution loop stops only at an untagged journal block, and it keeps
\* candidates whenever it ends.
C30_FailsOnlyOnUntaggedBlock ==
  [][s2pc = "live" =>
       IF UntaggedCandidate THEN s2pc' = "aborted"
       ELSE s2pc' = "resolved" /\ KeptCandidates']_vars

====
